---- MODULE Spec2Model ----
(***************************************************************************)
(* A model of compyler, the TAPL compiler: the recursive-descent parser    *)
(* (ast_generator.py), the type registry (types/types.py), the scoping and *)
(* typing passes (ast_checks/, visitors/) and their verification pass.     *)
(*                                                                         *)
(* Conventions.                                                            *)
(*  - A token is a record [type, value, num, start, length]; `type` is the *)
(*    name of the TokenType member, `value` the identifier / type keyword  *)
(*    text, `num` the value of a NUMBER token.                             *)
(*  - An AST node is a record whose field k is the Python class name.      *)
(*    None is the record NoneNode.                                         *)
(*  - A parse function takes the parser state p (the mutable fields of     *)
(*    AstGenerator) and returns [r, p, n, msg]: r = "ok" with the node n,  *)
(*    r = "tapl" when a TaplError (AstError) was raised with message msg,  *)
(*    r = "crash" when another exception (IndexError) escaped.  p is the   *)
(*    parser state at the return or at the raise.                          *)
(*  - The label f"breakall_{start}" is the integer start; the initial      *)
(*    label "breakall" is InitialLabel and a missing label is NoLabel.     *)
(*  - A local of a function that is used by the statements after it is a  *)
(*    parameter of a definition of its own: f_x holds the statements of f  *)
(*    that follow the assignment of x, and f applies f_x to the value.     *)
(***************************************************************************)
EXTENDS Integers, Sequences, FiniteSets, TLC

VARIABLES
    source,     \* the source file: a sequence of lines, each a sequence of words
    tokens,     \* AstGenerator._tokens: the token stream handed to the parser
    parser,     \* AstGenerator's mutable fields
    ast,        \* AST.statements built by generate
    errors,     \* generate's local list `errors` (the messages)
    phase,      \* position of the compiler run
    pass,       \* the semantic pass that is running: its scopes, stash and errors
    registry,   \* Types: the collection _types, the objects and the values returned
    output      \* CodeGenerator.generate_c: the lines of the C files written

vars == <<source, tokens, parser, ast, errors, phase, pass, registry, output>>

RECURSIVE statement(_, _)
RECURSIVE statement_block_loop(_, _)
RECURSIVE expression(_)
RECURSIVE boolean_loop(_, _)
RECURSIVE comparison_loop(_, _)
RECURSIVE additive_loop(_, _)
RECURSIVE multiplicative_loop(_, _)
RECURSIVE primary(_)
RECURSIVE string_loop(_, _)
RECURSIVE identifier_expression(_, _)
RECURSIVE call_arguments(_, _)
RECURSIVE function_arguments(_, _)
RECURSIVE else_loop(_, _)
RECURSIVE class_body_loop(_, _, _)
RECURSIVE LocAddAll(_, _)

----------------------------------------------------------------------------
(* Small helpers *)

Min(a, b) == IF a <= b THEN a ELSE b
Max(a, b) == IF a >= b THEN a ELSE b

NoneNode == [k |-> "None"]
IsNone(n) == n.k = "None"

----------------------------------------------------------------------------
(* Source locations (utils/source_location.py): start offset and length;   *)
(* adding two locations gives the span that covers both.                   *)

SourceLocation(start, length) == [start |-> start, length |-> length]

LocEnd(loc) == loc.start + loc.length

\* LocAdd, once e is known
LocAdd_e(s, e) ==
    SourceLocation(s, e - s)

\* LocAdd, once s is known
LocAdd_s(a, b, s) ==
    LocAdd_e(s, Max(LocEnd(a), LocEnd(b)))

LocAdd(a, b) ==
    LocAdd_s(a, b, Min(a.start, b.start))

\* span a contains span b
Covers(a, b) == a.start <= b.start /\ LocEnd(b) <= LocEnd(a)

----------------------------------------------------------------------------
(* Types as the parser and the passes see them (types/type.py and its      *)
(* subclasses): the class, the keyword and the is_reference flag.          *)

NumericKeywords ==
    {"u1", "u8", "u16", "u32", "u64", "s8", "s16", "s32", "s64", "f32", "f64", "base"}

ClassKeywords == {"Counter", "Other"}

ListKeywords == {"list[char]", "list[u8]"}

TypeClassOf(keyword) ==
    IF keyword \in NumericKeywords \cup {"bool"} THEN "NumericType"
    ELSE IF keyword = "char" THEN "CharacterType"
    ELSE IF keyword \in ClassKeywords THEN "ClassType"
    ELSE IF keyword \in ListKeywords THEN "ListType"
    ELSE "Type"

\* the canonical keyword: bool is syntactic sugar of u1
CanonicalKeyword(keyword) == IF keyword = "bool" THEN "u1" ELSE keyword

MkType(keyword) ==
    [class |-> TypeClassOf(keyword), keyword |-> CanonicalKeyword(keyword), is_reference |-> FALSE]

\* Type.unknown(): the sentinel every expression starts with
UnknownType == [class |-> "Type", keyword |-> "unknown", is_reference |-> FALSE]

\* Type.non_void()
non_void(type_) == type_.keyword # "void"

----------------------------------------------------------------------------
(* Token streams.  A program is written as a sequence of words; Tokens     *)
(* turns it into the token list the tokeniser hands to AstGenerator.  The  *)
(* i-th token starts at offset TokenStride * (i - 1) and is one character  *)
(* long.                                                                   *)

TokenStride == 2

TypeWords == {"void", "bool", "u8", "u16", "u32", "u64", "s8", "string", "char"}
                 \cup ClassKeywords \cup ListKeywords

NumberValue(w) ==
    CASE w = "0" -> 0 [] w = "1" -> 1 [] w = "5" -> 5 [] w = "127" -> 127
      [] w = "128" -> 128 [] w = "255" -> 255 [] w = "256" -> 256
      [] w = "300" -> 300 [] w = "1000" -> 1000 [] OTHER -> 0

NumberWords == {"0", "1", "5", "127", "128", "255", "256", "300", "1000"}

TokenTypeOf(w) ==
    CASE w = "NL" -> "NEWLINE" [] w = "IN" -> "INDENT" [] w = "DE" -> "DEDENT"
      [] w = "EOF" -> "EOF"
      [] w = "(" -> "PAREN_OPEN" [] w = ")" -> "PAREN_CLOSE" [] w = "," -> "COMMA"
      [] w = ":" -> "COLON" [] w = ";" -> "SEMICOLON" [] w = "." -> "DOT"
      [] w = "=" -> "EQUAL" [] w = "+=" -> "PLUS_EQUAL" [] w = "-=" -> "MINUS_EQUAL"
      [] w = "*=" -> "STAR_EQUAL" [] w = "/=" -> "SLASH_EQUAL"
      [] w = "==" -> "EQUAL_EQUAL" [] w = "!=" -> "NOT_EQUAL"
      [] w = "<" -> "LESS" [] w = "<=" -> "LESS_EQUAL"
      [] w = ">" -> "GREATER" [] w = ">=" -> "GREATER_EQUAL"
      [] w = "&&" -> "AND_AND" [] w = "||" -> "OR_OR" [] w = "!" -> "NOT"
      [] w = "+" -> "PLUS" [] w = "-" -> "MINUS" [] w = "*" -> "STAR" [] w = "/" -> "SLASH"
      [] w = "++" -> "INCREMENT" [] w = "--" -> "DECREMENT" [] w = "~" -> "TILDE"
      [] w = "if" -> "IF" [] w = "else" -> "ELSE" [] w = "for" -> "FOR"
      [] w = "while" -> "WHILE" [] w = "break" -> "BREAK" [] w = "breakall" -> "BREAKALL"
      [] w = "continue" -> "CONTINUE" [] w = "return" -> "RETURN"
      [] w = "print" -> "PRINT" [] w = "println" -> "PRINTLN"
      [] w = "true" -> "TRUE" [] w = "false" -> "FALSE" [] w = "null" -> "NULL"
      [] w = "class" -> "CLASS" [] w = "this" -> "THIS"
      [] w = "STR(" -> "STRING_START" [] w = ")STR" -> "STRING_END"
      [] w = "chars" -> "STRING_CHARS"
      [] w = "{" -> "STRING_EXPR_START" [] w = "}" -> "STRING_EXPR_END"
      [] w = "'c'" -> "CHARACTER"
      [] w \in TypeWords -> "TYPE"
      [] w \in NumberWords -> "NUMBER"
      [] OTHER -> "IDENTIFIER"

Token(w, i) ==
    [type |-> TokenTypeOf(w), value |-> w, num |-> NumberValue(w),
     start |-> TokenStride * (i - 1), length |-> 1]

Tokens(words) == [i \in 1..Len(words) |-> Token(words[i], i)]

TokLoc(tok) == SourceLocation(tok.start, tok.length)

\* TypeToken.type_
TokType(tok) == MkType(tok.value)

----------------------------------------------------------------------------
(* AstGenerator: the token primitives (ast_generator.py 66-125)            *)

InitialLabel == -1
NoLabel == -2

InitParser ==
    [current_index |-> 0, in_function |-> FALSE, loop_count |-> 0,
     breakall_label |-> InitialLabel, class_type |-> "None"]

Ok(p, n) == [r |-> "ok", p |-> p, n |-> n, msg |-> ""]
\* ast_error: raise AstError
Err(p, msg) == [r |-> "tapl", p |-> p, n |-> NoneNode, msg |-> msg]
\* an IndexError of self._tokens[...]
Crash(p) == [r |-> "crash", p |-> p, n |-> NoneNode, msg |-> "IndexError"]

\* current() raises IndexError past the end of the list
OutOfTokens(p) == p.current_index >= Len(tokens)

current(p) == tokens[p.current_index + 1]

\* next(offset): the guard raises an AstError only when index + offset > len
next_error(p, offset) == p.current_index + offset > Len(tokens)

\* next(offset): index + offset = len passes the guard and the list access raises
next_raises(p, offset) == p.current_index + offset >= Len(tokens)

next(p, offset) == tokens[p.current_index + offset + 1]

previous(p) == tokens[p.current_index]

is_at_end(p) ==
    IF p.current_index >= Len(tokens) THEN TRUE ELSE current(p).type = "EOF"

consume(p) == [p EXCEPT !.current_index = p.current_index + 1]

\* match(*token_types) succeeds
matches(p, types) == current(p).type \in types

\* _has_indent: [hit, p]
has_indent(p) ==
    IF is_at_end(p) THEN [hit |-> FALSE, p |-> p]
    ELSE IF matches(p, {"INDENT"}) THEN [hit |-> TRUE, p |-> consume(p)]
    ELSE [hit |-> FALSE, p |-> p]

\* expect(token_type): the token is in n
expect(p, type, msg) ==
    IF OutOfTokens(p) THEN Crash(p)
    ELSE IF matches(p, {type}) THEN Ok(consume(p), current(p))
    ELSE Err(p, msg)

\* expect_newline(type_, must_end_with_newline)
expect_newline(p, must_end_with_newline) ==
    IF ~must_end_with_newline THEN Ok(p, NoneNode)
    ELSE IF OutOfTokens(p) THEN Crash(p)
    ELSE IF matches(p, {"NEWLINE", "EOF"}) THEN Ok(consume(p), NoneNode)
    ELSE Err(p, "expected a newline or End-Of-File")

----------------------------------------------------------------------------
(* Expression nodes (expressions/*.py)                                     *)

TokenExpression(loc, tok) ==
    [k |-> "TokenExpression", source_location |-> loc, type_ |-> UnknownType, token |-> tok]

BinaryExpression(left, tok, right) ==
    [k |-> "BinaryExpression",
     source_location |-> LocAdd(LocAdd(left.source_location, TokLoc(tok)), right.source_location),
     type_ |-> UnknownType, token |-> tok, left |-> left, right |-> right]

UnaryExpression(loc, expression_type, inner) ==
    [k |-> "UnaryExpression", source_location |-> loc, type_ |-> UnknownType,
     expression_type |-> expression_type, expression |-> inner]

TypeCastExpression(loc, cast_to, inner) ==
    [k |-> "TypeCastExpression", source_location |-> loc, type_ |-> UnknownType,
     cast_to |-> cast_to, expression |-> inner]

IdentifierExpression(loc, tok) ==
    [k |-> "IdentifierExpression", source_location |-> loc, type_ |-> UnknownType,
     identifier_token |-> tok, inner_expression |-> NoneNode,
     class_type |-> "None", list_type |-> "None"]

CallExpression(loc, callee, class_type, arguments) ==
    [k |-> "CallExpression", source_location |-> loc, type_ |-> UnknownType,
     expression |-> callee, class_type |-> class_type, arguments |-> arguments,
     call_consumed |-> FALSE]

ThisExpression(loc, inner) ==
    [k |-> "ThisExpression", source_location |-> loc, type_ |-> UnknownType,
     inner_expression |-> inner]

StringEqualExpression(inner, tok) ==
    [k |-> "StringEqualExpression",
     source_location |-> LocAdd(inner.source_location, TokLoc(tok)),
     type_ |-> UnknownType, inner |-> inner, token |-> tok]

\* StringExpression(string_start); string_elements holds tokens (k = "Token")
\* and expressions
StringElementToken(tok) == [k |-> "Token", source_location |-> TokLoc(tok), token |-> tok]

StringExpression(string_start) ==
    [k |-> "StringExpression", source_location |-> TokLoc(string_start),
     type_ |-> UnknownType, string_elements |-> <<StringElementToken(string_start)>>,
     line_end |-> ""]

\* StringExpression.add_token
add_token(string_expression, element) ==
    [string_expression EXCEPT
        !.source_location = LocAdd(@, element.source_location),
        !.string_elements = Append(@, element)]

----------------------------------------------------------------------------
(* AstGenerator: expressions (ast_generator.py 671-895)                    *)

\* call_arguments, once e is known
call_arguments_e(arguments, e) ==
    IF e.r # "ok" THEN e
    ELSE IF OutOfTokens(e.p) THEN Crash(e.p)
    ELSE IF matches(e.p, {"COMMA"})
         THEN call_arguments(consume(e.p), Append(arguments, e.n))
         ELSE Ok(e.p, Append(arguments, e.n))

\* call_expression: the argument loop (877-886); n is the argument list
call_arguments(p, arguments) ==
    call_arguments_e(arguments, expression(p))

\* call_expression, once c is known
call_expression_c(callee, a, c) ==
    IF c.r # "ok" THEN c
    ELSE Ok(c.p,
            CallExpression(LocAdd(callee.source_location, TokLoc(c.n)),
                           callee, c.p.class_type, a.n))

\* call_expression, once a is known
call_expression_a(callee, a) ==
    IF a.r # "ok" THEN a
    ELSE call_expression_c(callee, a, expect(a.p, "PAREN_CLOSE", "expected PAREN_CLOSE"))

\* call_expression(identifier_expression): the opening parenthesis is consumed
call_expression(p, callee) ==
    IF OutOfTokens(p) THEN Crash(p)
    ELSE IF matches(p, {"PAREN_CLOSE"})
    THEN Ok(consume(p),
            CallExpression(LocAdd(callee.source_location, TokLoc(current(p))),
                           callee, p.class_type, <<>>))
    ELSE call_expression_a(callee, call_arguments(p, <<>>))

\* identifier_expression, once inner is known
identifier_expression_inner(e, inner) ==
    IF inner.r # "ok" THEN inner
    ELSE Ok(inner.p, [e EXCEPT !.inner_expression = inner.n])

\* identifier_expression, once id is known
identifier_expression_id(e, id) ==
    IF id.r # "ok" THEN id
    ELSE identifier_expression_inner(e, identifier_expression(id.p, id.n))

\* identifier_expression, once e is known
identifier_expression_e(p, e) ==
    IF OutOfTokens(p) THEN Crash(p)
    ELSE IF matches(p, {"INCREMENT"})
    THEN Ok(consume(p),
            UnaryExpression(LocAdd(e.source_location, TokLoc(current(p))),
                            "POST_INCREMENT", e))
    ELSE IF matches(p, {"DECREMENT"})
    THEN Ok(consume(p),
            UnaryExpression(LocAdd(e.source_location, TokLoc(current(p))),
                            "POST_DECREMENT", e))
    ELSE IF matches(p, {"PAREN_OPEN"})
    THEN call_expression(consume(p), e)
    ELSE IF matches(p, {"DOT"})
    THEN identifier_expression_id(e, expect(consume(p), "IDENTIFIER", "expected IDENTIFIER"))
    ELSE Ok(p, e)

\* identifier_expression(token): the identifier token is consumed
identifier_expression(p, tok) ==
    identifier_expression_e(p, IdentifierExpression(TokLoc(tok), tok))

\* string_loop, once e is known
string_loop_e(se, e) ==
    IF e.r # "ok" THEN e
    ELSE IF OutOfTokens(e.p) THEN Crash(e.p)
    ELSE IF matches(e.p, {"STRING_EXPR_END"})
    THEN string_loop(consume(e.p), add_token(se, e.n))
    ELSE IF matches(e.p, {"EQUAL"})
    THEN string_loop(consume(e.p),
                     add_token(se, StringEqualExpression(e.n, current(e.p))))
    ELSE string_loop(e.p, se)

\* string_loop, once se is known
string_loop_se(q, tok, se) ==
    IF tok.type = "STRING_END" THEN Ok(q, se)
    ELSE IF tok.type = "STRING_EXPR_START"
    THEN string_loop_e(se, expression(q))
    ELSE string_loop(q, se)

\* string_loop, once tok is known
string_loop_tok(string_expression, q, tok) ==
    string_loop_se(q, tok, add_token(string_expression, StringElementToken(tok)))

\* string_loop, once q is known: consume() past the end calls ast_error,
\* whose current() and previous() both raise IndexError
string_loop_q(string_expression, q) ==
    IF q.current_index > Len(tokens) THEN Crash(q)
    ELSE
    string_loop_tok(string_expression, q, previous(q))

\* primary: the loop that collects a string expression (754-772);
\* p is the state before the consume() of the loop head
string_loop(p, string_expression) ==
    string_loop_q(string_expression, consume(p))

\* prefix_primary, once e is known
prefix_primary_e(tok, expression_type, e) ==
    IF e.r # "ok" THEN e
    ELSE Ok(e.p, UnaryExpression(LocAdd(TokLoc(tok), e.n.source_location),
                                 expression_type, e.n))

\* primary: a prefix operator followed by a primary (796-805)
prefix_primary(p, tok, expression_type) ==
    prefix_primary_e(tok, expression_type, primary(p))

\* prefix_identifier, once e is known
prefix_identifier_e(tok, expression_type, id, e) ==
    Ok(id.p, UnaryExpression(LocAdd(TokLoc(tok), e.source_location),
                             expression_type, e))

\* prefix_identifier, once id is known
prefix_identifier_id(tok, expression_type, id) ==
    IF id.r # "ok" THEN id
    ELSE prefix_identifier_e(tok, expression_type, id, TokenExpression(TokLoc(id.n), id.n))

\* primary: pre increment or decrement of an identifier (808-817)
prefix_identifier(p, tok, expression_type) ==
    prefix_identifier_id(tok, expression_type, expect(p, "IDENTIFIER", "expected IDENTIFIER"))

\* paren_primary, once e is known
paren_primary_e(p, paren_open, e) ==
    IF e.r # "ok" THEN e
    ELSE Ok(e.p,
            TypeCastExpression(
                LocAdd(TokLoc(paren_open), e.n.source_location),
                current(p), e.n))

\* paren_primary, once c is known
paren_primary_c(p, paren_open, c) ==
    IF c.r # "ok" THEN c
    ELSE paren_primary_e(p, paren_open, primary(c.p))

\* paren_primary, once c is known
paren_primary_c2(paren_open, e, c) ==
    IF c.r # "ok" THEN c
    ELSE Ok(c.p,
            UnaryExpression(LocAdd(TokLoc(paren_open), TokLoc(c.n)),
                            "GROUPING", e.n))

\* paren_primary, once e is known
paren_primary_e2(paren_open, e) ==
    IF e.r # "ok" THEN e
    ELSE paren_primary_c2(paren_open, e,
                  expect(e.p, "PAREN_CLOSE", "expected closing parenthesis"))

\* primary: the parenthesised forms, PAREN_OPEN consumed (775-793)
paren_primary(p, paren_open) ==
    IF OutOfTokens(p) THEN Crash(p)
    ELSE IF matches(p, {"TYPE"})
    THEN paren_primary_c(p, paren_open, expect(consume(p), "PAREN_CLOSE", "expected PAREN_CLOSE"))
    ELSE paren_primary_e2(paren_open, expression(p))

\* this_primary, once e is known
this_primary_e(this, e) ==
    IF e.r # "ok" THEN e
    ELSE Ok(e.p,
            ThisExpression(
                LocAdd(TokLoc(this), e.n.source_location), e.n))

\* this_primary, once id is known
this_primary_id(this, id) ==
    IF id.r # "ok" THEN id
    ELSE this_primary_e(this, identifier_expression(id.p, id.n))

\* this_primary, once d is known
this_primary_d(this, d) ==
    IF d.r # "ok" THEN d
    ELSE this_primary_id(this, expect(d.p, "IDENTIFIER", "expected IDENTIFIER"))

\* primary: a this-expression, THIS consumed (825-838)
this_primary(p, this) ==
    IF p.class_type = "None" THEN Err(p, "found 'this' while not in a class!")
    ELSE this_primary_d(this, expect(p, "DOT", "expected DOT"))

\* primary, once q is known
primary_q(p, tok, t, q) ==
    IF t \in {"FALSE", "NULL", "TRUE", "CHARACTER", "NUMBER"}
    THEN Ok(q, TokenExpression(TokLoc(tok), tok))
    ELSE IF t = "STRING_START" THEN string_loop(q, StringExpression(tok))
    ELSE IF t = "PAREN_OPEN" THEN paren_primary(q, tok)
    ELSE IF t = "NOT" THEN prefix_primary(q, tok, "NOT")
    ELSE IF t = "MINUS" THEN prefix_primary(q, tok, "MINUS")
    ELSE IF t = "INCREMENT" THEN prefix_identifier(q, tok, "PRE_INCREMENT")
    ELSE IF t = "DECREMENT" THEN prefix_identifier(q, tok, "PRE_DECREMENT")
    ELSE IF t = "IDENTIFIER" THEN identifier_expression(q, tok)
    ELSE IF t = "THIS" THEN this_primary(q, tok)
    ELSE Err(p, "expected an expression")

\* primary, once t is known
primary_t(p, tok, t) ==
    primary_q(p, tok, t, consume(p))

\* primary, once tok is known
primary_tok(p, tok) ==
    primary_t(p, tok, tok.type)

primary(p) ==
    IF OutOfTokens(p) THEN Crash(p)
    ELSE
    primary_tok(p, current(p))

MultiplicativeTokens == {"STAR", "SLASH"}
AdditiveTokens == {"PLUS", "MINUS"}
ComparisonTokens ==
    {"EQUAL_EQUAL", "GREATER", "GREATER_EQUAL", "LESS", "LESS_EQUAL", "NOT_EQUAL"}
BooleanTokens == {"AND_AND", "OR_OR"}

\* multiplicative_loop_greedy, once right is known
multiplicative_loop_greedy_right(p, left, right) ==
    IF right.r # "ok" THEN right
    ELSE multiplicative_loop(right.p, BinaryExpression(left, current(p), right.n))

\* multiplicative_loop with the right operand parsed as a whole expression
multiplicative_loop_greedy(p, left) ==
    IF OutOfTokens(p) THEN Crash(p)
    ELSE IF matches(p, MultiplicativeTokens)
    THEN multiplicative_loop_greedy_right(p, left, expression(consume(p)))
    ELSE Ok(p, left)

\* additive_loop_right, once right is known
additive_loop_right_right(p, left, right) ==
    IF right.r # "ok" THEN right
    ELSE Ok(right.p, BinaryExpression(left, current(p), right.n))

\* additive_loop_right, once inner is known
additive_loop_right_inner(p, left, inner) ==
    additive_loop_right_right(p, left,
                      IF inner.r # "ok" THEN inner ELSE additive_loop(inner.p, inner.n))

\* additive_loop_right, once m is known
additive_loop_right_m(p, left, m) ==
    additive_loop_right_inner(p, left,
                      IF m.r # "ok" THEN m
                      ELSE multiplicative_loop(m.p, m.n))

\* additive_loop with the right operand parsed one level too low, by additive
additive_loop_right(p, left) ==
    IF OutOfTokens(p) THEN Crash(p)
    ELSE IF matches(p, AdditiveTokens)
    THEN additive_loop_right_m(p, left, primary(consume(p)))
    ELSE Ok(p, left)

\* multiplicative_loop, once right is known
multiplicative_loop_right(p, left, right) ==
    IF right.r # "ok" THEN right
    ELSE multiplicative_loop(right.p, BinaryExpression(left, current(p), right.n))

multiplicative_loop(p, left) ==
    IF OutOfTokens(p) THEN Crash(p)
    ELSE IF matches(p, MultiplicativeTokens)
    THEN multiplicative_loop_right(p, left, primary(consume(p)))
    ELSE Ok(p, left)

\* multiplicative, once e is known
multiplicative_e(e) ==
    IF e.r # "ok" THEN e ELSE multiplicative_loop(e.p, e.n)

multiplicative(p) ==
    multiplicative_e(primary(p))

\* additive_loop, once right is known
additive_loop_right2(p, left, right) ==
    IF right.r # "ok" THEN right
    ELSE additive_loop(right.p, BinaryExpression(left, current(p), right.n))

additive_loop(p, left) ==
    IF OutOfTokens(p) THEN Crash(p)
    ELSE IF matches(p, AdditiveTokens)
    THEN additive_loop_right2(p, left, multiplicative(consume(p)))
    ELSE Ok(p, left)

\* additive, once e is known
additive_e(e) ==
    IF e.r # "ok" THEN e ELSE additive_loop(e.p, e.n)

additive(p) ==
    additive_e(multiplicative(p))

\* comparison_loop, once right is known
comparison_loop_right(p, left, right) ==
    IF right.r # "ok" THEN right
    ELSE comparison_loop(right.p, BinaryExpression(left, current(p), right.n))

comparison_loop(p, left) ==
    IF OutOfTokens(p) THEN Crash(p)
    ELSE IF matches(p, ComparisonTokens)
    THEN comparison_loop_right(p, left, additive(consume(p)))
    ELSE Ok(p, left)

\* comparison, once e is known
comparison_e(e) ==
    IF e.r # "ok" THEN e ELSE comparison_loop(e.p, e.n)

comparison(p) ==
    comparison_e(additive(p))

\* boolean_loop, once right is known
boolean_loop_right(p, left, right) ==
    IF right.r # "ok" THEN right
    ELSE boolean_loop(right.p, BinaryExpression(left, current(p), right.n))

boolean_loop(p, left) ==
    IF OutOfTokens(p) THEN Crash(p)
    ELSE IF matches(p, BooleanTokens)
    THEN boolean_loop_right(p, left, comparison(consume(p)))
    ELSE Ok(p, left)

\* boolean, once e is known
boolean_e(e) ==
    IF e.r # "ok" THEN e ELSE boolean_loop(e.p, e.n)

boolean(p) ==
    boolean_e(comparison(p))

expression(p) == boolean(p)

----------------------------------------------------------------------------
(* Statement nodes (statements/*.py)                                       *)

\* source_location += statement.source_location for every statement
LocAddAll(loc, statements) ==
    IF statements = <<>> THEN loc
    ELSE LocAddAll(LocAdd(loc, Head(statements).source_location), Tail(statements))

\* x.source_location when x is not None
LocAddOpt(loc, node) == IF IsNone(node) THEN loc ELSE LocAdd(loc, node.source_location)

AssignmentStatement(target, assignment_token, value) ==
    [k |-> "AssignmentStatement",
     source_location |-> LocAdd(target.source_location, value.source_location),
     expression |-> target, assignment_token |-> assignment_token, value |-> value]

is_assignment_form_token(tok) ==
    tok.type \in {"EQUAL", "PLUS_EQUAL", "MINUS_EQUAL", "SLASH_EQUAL", "STAR_EQUAL"}

BreakStatement(loc) == [k |-> "BreakStatement", source_location |-> loc]

BreakallStatement(loc, breakall_label) ==
    [k |-> "BreakallStatement", source_location |-> loc, breakall_label |-> breakall_label]

ContinueStatement(loc) == [k |-> "ContinueStatement", source_location |-> loc]

ExpressionStatement(e) ==
    [k |-> "ExpressionStatement", source_location |-> e.source_location, expression |-> e]

ForLoopStatement(tok, breakall_label, init, check, loop, statements) ==
    [k |-> "ForLoopStatement",
     source_location |->
        LocAddAll(LocAddOpt(LocAddOpt(LocAddOpt(TokLoc(tok), init), check), loop), statements),
     token |-> tok, breakall_label |-> breakall_label,
     init |-> init, check |-> check, loop |-> loop, statements |-> statements]

\* an argument is the pair (TypeToken, IdentifierToken); type_ is TypeToken.type_
Argument(argument_type, argument_name) ==
    [type_token |-> argument_type, type_ |-> TokType(argument_type), name |-> argument_name]

FunctionStatement(return_type, name, class_type) ==
    [k |-> "FunctionStatement",
     source_location |-> LocAdd(TokLoc(return_type), TokLoc(name)),
     return_type |-> return_type, name |-> name, class_type |-> class_type,
     arguments |-> <<>>, statements |-> <<>>]

LifecycleStatement(statement_type, type_, loc) ==
    [k |-> "LifecycleStatement", source_location |-> loc,
     statement_type |-> statement_type, type_ |-> type_,
     arguments |-> <<>>, statements |-> <<>>]

\* FunctionStatement.add_argument and LifecycleStatement.add_argument
add_argument(function_statement, argument_type, argument_name) ==
    [function_statement EXCEPT
        !.source_location = LocAdd(@, LocAdd(TokLoc(argument_type), TokLoc(argument_name))),
        !.arguments = Append(@, Argument(argument_type, argument_name))]

\* else_statements is None exactly when has_else is FALSE
IfStatement(tok, e, statements) ==
    [k |-> "IfStatement",
     source_location |-> LocAddAll(LocAdd(TokLoc(tok), e.source_location), statements),
     expression |-> e, statements |-> statements,
     else_if_statement_blocks |-> <<>>, has_else |-> FALSE, else_statements |-> <<>>]

add_else_if_statement_block(if_stmt, e, statement_block) ==
    [if_stmt EXCEPT
        !.else_if_statement_blocks =
            Append(@, [expression |-> e, statements |-> statement_block])]

ListStatement(type_token, name) ==
    [k |-> "ListStatement",
     source_location |-> LocAdd(TokLoc(type_token), TokLoc(name)),
     list_type |-> TokType(type_token), name |-> name]

PrintStatement(tok, value) ==
    [k |-> "PrintStatement",
     source_location |-> LocAdd(TokLoc(tok), value.source_location),
     line_end |-> IF tok.type = "PRINTLN" THEN "\\n" ELSE "",
     value |-> value]

ReturnStatement(tok, value) ==
    [k |-> "ReturnStatement", source_location |-> LocAddOpt(TokLoc(tok), value),
     value |-> value]

VarDeclStatement(type_token, name, initial_value) ==
    [k |-> "VarDeclStatement",
     source_location |-> LocAddOpt(LocAdd(TokLoc(type_token), TokLoc(name)), initial_value),
     type_token |-> type_token, type_ |-> TokType(type_token), name |-> name,
     initial_value |-> initial_value]

ClassStatement(class_type, loc) ==
    [k |-> "ClassStatement", source_location |-> loc, class_type |-> class_type,
     variables |-> <<>>, functions |-> <<>>,
     constructor |-> NoneNode, destructor |-> NoneNode]

----------------------------------------------------------------------------
(* AstGenerator: statements (ast_generator.py 127-669).  A function that   *)
(* returns None in the source returns Ok(p, NoneNode).                     *)

get_breakall_label(p) == IF p.loop_count = 0 THEN p.breakall_label ELSE NoLabel

set_breakall_label(p, loop_token) ==
    IF p.loop_count = 0 THEN [p EXCEPT !.breakall_label = loop_token.start] ELSE p

\* statement_block_loop, once s is known
statement_block_loop_s(statements, s) ==
    IF s.r # "ok" THEN s
    ELSE statement_block_loop(s.p, Append(statements, s.n))

statement_block_loop(p, statements) ==
    IF OutOfTokens(p) THEN Crash(p)
    ELSE IF matches(p, {"DEDENT"}) THEN Ok(consume(p), statements)
    ELSE statement_block_loop_s(statements, statement(p, TRUE))

\* statement_block, once h is known
statement_block_h(h) ==
    IF ~h.hit THEN Ok(h.p, <<>>) ELSE statement_block_loop(h.p, <<>>)

\* _statement_block: n is the list of statements
statement_block(p) ==
    statement_block_h(has_indent(p))

\* statement_block_in_loop, once b is known
statement_block_in_loop_b(b) ==
    [b EXCEPT !.p.loop_count = @ - 1]

\* _statement_block_in_loop without the finally clause
statement_block_in_loop_leaking(p) ==
    IF statement_block([p EXCEPT !.loop_count = @ + 1]).r = "ok"
    THEN statement_block_in_loop_b(statement_block([p EXCEPT !.loop_count = @ + 1]))
    ELSE statement_block([p EXCEPT !.loop_count = @ + 1])

\* _statement_block_in_loop: the finally clause runs on every outcome
statement_block_in_loop(p) ==
    statement_block_in_loop_b(statement_block([p EXCEPT !.loop_count = @ + 1]))

\* assignment_statement, once nl is known
assignment_statement_nl(p, e, value, nl) ==
    IF nl.r # "ok" THEN nl
    ELSE Ok(nl.p, AssignmentStatement(e, current(p), value.n))

\* assignment_statement, once value is known
assignment_statement_value(p, e, must_end_with_newline, value) ==
    IF value.r # "ok" THEN value
    ELSE assignment_statement_nl(p, e, value,
                   expect_newline(value.p, must_end_with_newline))

assignment_statement(p, e, must_end_with_newline) ==
    IF e.k \notin {"ThisExpression", "IdentifierExpression"} THEN Ok(p, NoneNode)
    ELSE IF OutOfTokens(p) THEN Crash(p)
    ELSE IF ~is_assignment_form_token(current(p)) THEN Ok(p, NoneNode)
    ELSE assignment_statement_value(p, e, must_end_with_newline, expression(consume(p)))

\* for_init, once e is known
for_init_e(s, e) ==
    IF e.r # "ok" THEN e ELSE Ok(e.p, s.n)

\* for_init, once s is known
for_init_s(s) ==
    IF s.r # "ok" THEN s
    ELSE for_init_e(s, expect(s.p, "SEMICOLON", "expected SEMICOLON"))

\* for_loop_statement: the initial value statement (196-199)
for_init(p) ==
    IF OutOfTokens(p) THEN Crash(p)
    ELSE IF matches(p, {"SEMICOLON"}) THEN Ok(consume(p), NoneNode)
    ELSE for_init_s(statement(p, FALSE))

\* for_check, once e is known
for_check_e(c, e) ==
    IF e.r # "ok" THEN e ELSE Ok(e.p, c.n)

\* for_check, once c is known
for_check_c(c) ==
    IF c.r # "ok" THEN c
    ELSE for_check_e(c, expect(c.p, "SEMICOLON", "expected SEMICOLON"))

\* for_loop_statement: the check expression (202-205)
for_check(p) ==
    IF OutOfTokens(p) THEN Crash(p)
    ELSE IF matches(p, {"SEMICOLON"}) THEN Ok(consume(p), NoneNode)
    ELSE for_check_c(expression(p))

\* for_loop, once e is known
for_loop_e(s, e) ==
    IF e.r # "ok" THEN e ELSE Ok(e.p, s.n)

\* for_loop, once s is known
for_loop_s(s) ==
    IF s.r # "ok" THEN s
    ELSE for_loop_e(s, expect(s.p, "COLON", "expected COLON"))

\* for_loop_statement: the loop statement (208-211)
for_loop(p) ==
    IF OutOfTokens(p) THEN Crash(p)
    ELSE IF matches(p, {"COLON"}) THEN Ok(consume(p), NoneNode)
    ELSE for_loop_s(statement(p, FALSE))

\* for_loop_statement, once b is known
for_loop_statement_b(tok, init, check, loop, b) ==
        IF b.r # "ok" THEN b
    ELSE Ok(b.p, ForLoopStatement(tok, get_breakall_label(b.p),
                                  init.n, check.n, loop.n, b.n))

\* for_loop_statement, once nl is known
for_loop_statement_nl(tok, init, check, loop, nl) ==
        IF nl.r # "ok" THEN nl
    ELSE for_loop_statement_b(tok, init, check, loop, statement_block_in_loop(nl.p))

\* for_loop_statement, once loop is known
for_loop_statement_loop(tok, init, check, loop) ==
        IF loop.r # "ok" THEN loop
    ELSE for_loop_statement_nl(tok, init, check, loop, expect_newline(loop.p, TRUE))

\* for_loop_statement, once check is known
for_loop_statement_check(tok, init, check) ==
        IF check.r # "ok" THEN check
    ELSE for_loop_statement_loop(tok, init, check, for_loop(check.p))

\* for_loop_statement, once init is known
for_loop_statement_init(tok, init) ==
    IF init.r # "ok" THEN init
    ELSE for_loop_statement_check(tok, init, for_check(init.p))

\* for_loop_statement, once tok is known
for_loop_statement_tok(p, tok) ==
    for_loop_statement_init(tok, for_init(set_breakall_label(consume(p), tok)))

for_loop_statement(p) ==
    IF ~matches(p, {"FOR"}) THEN Ok(p, NoneNode)
    ELSE
    for_loop_statement_tok(p, current(p))

\* while_loop_statement, once b is known
while_loop_statement_b(tok, check, b) ==
        IF b.r # "ok" THEN b
    ELSE Ok(b.p, ForLoopStatement(tok, get_breakall_label(b.p),
                                  NoneNode, check.n, NoneNode, b.n))

\* while_loop_statement, once nl is known
while_loop_statement_nl(tok, check, nl) ==
        IF nl.r # "ok" THEN nl
    ELSE while_loop_statement_b(tok, check, statement_block_in_loop(nl.p))

\* while_loop_statement, once c is known
while_loop_statement_c(tok, check, c) ==
        IF c.r # "ok" THEN c
    ELSE while_loop_statement_nl(tok, check, expect_newline(c.p, TRUE))

\* while_loop_statement, once check is known
while_loop_statement_check(tok, check) ==
    IF check.r # "ok" THEN check
    ELSE while_loop_statement_c(tok, check, expect(check.p, "COLON", "expected COLON"))

\* while_loop_statement, once tok is known
while_loop_statement_tok(p, tok) ==
    while_loop_statement_check(tok, expression(set_breakall_label(consume(p), tok)))

while_loop_statement(p) ==
    IF ~matches(p, {"WHILE"}) THEN Ok(p, NoneNode)
    ELSE
    while_loop_statement_tok(p, current(p))

\* finish_function_statement, once b is known
finish_function_statement_b(function_statement, b) ==
        IF b.r # "ok" THEN b
    ELSE Ok([b.p EXCEPT !.in_function = FALSE],
            [function_statement EXCEPT !.statements = b.n])

\* finish_function_statement, once nl is known
finish_function_statement_nl(function_statement, nl) ==
        IF nl.r # "ok" THEN nl
    ELSE finish_function_statement_b(function_statement,
                  statement_block([nl.p EXCEPT !.in_function = TRUE]))

\* finish_function_statement, once c is known
finish_function_statement_c(function_statement, c) ==
    IF c.r # "ok" THEN c
    ELSE finish_function_statement_nl(function_statement, expect_newline(c.p, TRUE))

\* _finish_function_statement and _finish_lifecycle_statement: _in_function
\* stays True when the body raises
finish_function_statement(p, function_statement) ==
    finish_function_statement_c(function_statement, expect(p, "COLON", "expected COLON"))

\* function_arguments, once q is known
function_arguments_q(f, q) ==
    IF OutOfTokens(q) THEN Crash(q)
    ELSE IF matches(q, {"COMMA"}) THEN function_arguments(consume(q), f)
    ELSE Ok(q, f)

\* function_arguments, once f is known
function_arguments_f(argument_name, f) ==
    function_arguments_q(f, argument_name.p)

\* function_arguments, once argument_name is known
function_arguments_argument_name(function_statement, argument_type, argument_name) ==
        IF argument_name.r # "ok" THEN argument_name
    ELSE function_arguments_f(argument_name,
                  add_argument(function_statement, argument_type.n, argument_name.n))

\* function_arguments, once argument_type is known
function_arguments_argument_type(function_statement, argument_type) ==
    IF argument_type.r # "ok" THEN argument_type
    ELSE IF ~non_void(TokType(argument_type.n))
    THEN Err(argument_type.p, "function arguments cannot be of type void!")
    ELSE function_arguments_argument_name(function_statement, argument_type,
                              expect(argument_type.p, "IDENTIFIER", "expected IDENTIFIER"))

\* the type-name argument loop of function_statement (277-290) and of
\* _constructor (483-496)
function_arguments(p, function_statement) ==
    function_arguments_argument_type(function_statement, expect(p, "TYPE", "expected TYPE"))

\* finish_arguments, once c is known
finish_arguments_c(a, c) ==
    IF c.r # "ok" THEN c
    ELSE finish_function_statement(c.p, a.n)

\* finish_arguments, once a is known
finish_arguments_a(a) ==
    IF a.r # "ok" THEN a
    ELSE finish_arguments_c(a, expect(a.p, "PAREN_CLOSE", "expected PAREN_CLOSE"))

\* the argument list after the opening parenthesis, then the body
finish_arguments(p, function_statement) ==
    IF OutOfTokens(p) THEN Crash(p)
    ELSE IF matches(p, {"PAREN_CLOSE"})
    THEN finish_function_statement(consume(p), function_statement)
    ELSE finish_arguments_a(function_arguments(p, function_statement))

\* function_statement, once o is known
function_statement_o(f, o) ==
    IF o.r # "ok" THEN o ELSE finish_arguments(o.p, f)

\* function_statement, once f is known
function_statement_f(q, f) ==
    function_statement_o(f, expect(q, "PAREN_OPEN", "expected PAREN_OPEN"))

\* function_statement, once q is known
function_statement_q(p, q) ==
    function_statement_f(q, FunctionStatement(current(p), next(p, 1), p.class_type))

function_statement(p) ==
    function_statement_q(p, consume(consume(p)))

\* var_decl_statement, once nl is known
var_decl_statement_nl(type_token, name, initial_value, nl) ==
    IF nl.r # "ok" THEN nl
    ELSE IF TokType(type_token).class = "ListType"
    THEN Ok(nl.p, ListStatement(type_token, name))
    ELSE Ok(nl.p, VarDeclStatement(type_token, name, initial_value.n))

\* var_decl_statement, once initial_value is known
var_decl_statement_initial_value(must_end_with_newline, type_token, name, initial_value) ==
    IF initial_value.r # "ok" THEN initial_value
    ELSE var_decl_statement_nl(type_token, name, initial_value,
                   expect_newline(initial_value.p, must_end_with_newline))

\* var_decl_statement, once q is known
var_decl_statement_q(must_end_with_newline, type_token, name, q) ==
    IF OutOfTokens(q) THEN Crash(q)
    ELSE
    var_decl_statement_initial_value(must_end_with_newline, type_token, name,
            IF matches(q, {"EQUAL"}) THEN expression(consume(q)) ELSE Ok(q, NoneNode))

\* var_decl_statement, once name is known
var_decl_statement_name(p, must_end_with_newline, type_token, name) ==
    var_decl_statement_q(must_end_with_newline, type_token, name, consume(consume(p)))

\* var_decl_statement, once type_token is known
var_decl_statement_type_token(p, must_end_with_newline, type_token) ==
    var_decl_statement_name(p, must_end_with_newline, type_token, next(p, 1))

var_decl_statement(p, must_end_with_newline) ==
    var_decl_statement_type_token(p, must_end_with_newline, current(p))

\* _type_statement
type_statement(p, must_end_with_newline) ==
    IF OutOfTokens(p) THEN Crash(p)
    ELSE IF current(p).type # "TYPE" THEN Ok(p, NoneNode)
    ELSE IF next_error(p, 1) THEN Err(p, "unexpected end-of-file")
    ELSE IF next_raises(p, 1) THEN Crash(p)
    ELSE IF next(p, 1).type # "IDENTIFIER" THEN Ok(p, NoneNode)
    ELSE IF next_error(p, 2) THEN Err(p, "unexpected end-of-file")
    ELSE IF next_raises(p, 2) THEN Crash(p)
    ELSE IF next(p, 2).type = "PAREN_OPEN" THEN function_statement(p)
    ELSE var_decl_statement(p, must_end_with_newline)

\* single_if_statement, once b is known
single_if_statement_b(p, if_stmt, e, b) ==
        IF b.r # "ok" THEN b
    ELSE IF ~IsNone(if_stmt)
         THEN Ok(b.p, add_else_if_statement_block(if_stmt, e.n, b.n))
         ELSE Ok(b.p, IfStatement(current(p), e.n, b.n))

\* single_if_statement, once nl is known
single_if_statement_nl(p, if_stmt, e, nl) ==
        IF nl.r # "ok" THEN nl
    ELSE single_if_statement_b(p, if_stmt, e, statement_block(nl.p))

\* single_if_statement, once c is known
single_if_statement_c(p, if_stmt, e, c) ==
        IF c.r # "ok" THEN c
    ELSE single_if_statement_nl(p, if_stmt, e, expect_newline(c.p, TRUE))

\* single_if_statement, once e is known
single_if_statement_e(p, if_stmt, e) ==
    IF e.r # "ok" THEN e
    ELSE single_if_statement_c(p, if_stmt, e, expect(e.p, "COLON", "expected COLON"))

\* _single_if_statement(if_statement)
single_if_statement(p, if_stmt) ==
    IF OutOfTokens(p) THEN Crash(p)
    ELSE IF ~matches(p, {"IF"}) THEN Ok(p, NoneNode)
    ELSE
    single_if_statement_e(p, if_stmt, expression(consume(p)))

\* else_block, once b is known
else_block_b(if_stmt, b) ==
        IF b.r # "ok" THEN b
    ELSE Ok(b.p, [if_stmt EXCEPT !.has_else = TRUE, !.else_statements = b.n])

\* else_block, once nl is known
else_block_nl(if_stmt, nl) ==
        IF nl.r # "ok" THEN nl
    ELSE else_block_b(if_stmt, statement_block(nl.p))

\* else_block, once c is known
else_block_c(if_stmt, c) ==
    IF c.r # "ok" THEN c
    ELSE else_block_nl(if_stmt, expect_newline(c.p, TRUE))

\* if_statement: a bare else block (337-349)
else_block(p, if_stmt) ==
    else_block_c(if_stmt, expect(p, "COLON", "expected COLON"))

\* else_loop, once s is known
else_loop_s(if_stmt, s) ==
    IF s.r # "ok" THEN s
    ELSE IF ~IsNone(s.n) THEN else_loop(s.p, s.n)
    ELSE else_block(s.p, if_stmt)

\* if_statement: the loop over else-if and else blocks (331-349)
else_loop(p, if_stmt) ==
    IF OutOfTokens(p) THEN Crash(p)
    ELSE IF ~matches(p, {"ELSE"}) THEN Ok(p, if_stmt)
    ELSE else_loop_s(if_stmt, single_if_statement(consume(p), if_stmt))

\* if_statement, once s is known
if_statement_s(s) ==
    IF s.r # "ok" THEN s
    ELSE IF is_at_end(s.p) \/ IsNone(s.n) THEN s
    ELSE else_loop(s.p, s.n)

if_statement(p) ==
    if_statement_s(single_if_statement(p, NoneNode))

\* print_statement, once nl is known
print_statement_nl(p, value, nl) ==
        IF nl.r # "ok" THEN nl
    ELSE Ok(nl.p, PrintStatement(current(p), value.n))

\* print_statement, once c is known
print_statement_c(p, value, c) ==
        IF c.r # "ok" THEN c
    ELSE print_statement_nl(p, value, expect_newline(c.p, TRUE))

\* print_statement, once value is known
print_statement_value(p, value) ==
        IF value.r # "ok" THEN value
    ELSE print_statement_c(p, value, expect(value.p, "PAREN_CLOSE", "expected PAREN_CLOSE"))

\* print_statement, once o is known
print_statement_o(p, o) ==
    IF o.r # "ok" THEN o
    ELSE print_statement_value(p, expression(o.p))

print_statement(p) ==
    IF ~matches(p, {"PRINT", "PRINTLN"}) THEN Ok(p, NoneNode)
    ELSE
    print_statement_o(p, expect(consume(p), "PAREN_OPEN", "expected PAREN_OPEN"))

\* return_statement, once nl is known
return_statement_nl(p, e, nl) ==
        IF nl.r # "ok" THEN nl
    ELSE Ok(nl.p, ReturnStatement(current(p), e.n))

\* return_statement, once e is known
return_statement_e(p, e) ==
        IF e.r # "ok" THEN e
    ELSE return_statement_nl(p, e, expect_newline(e.p, TRUE))

\* return_statement, once q is known
return_statement_q(p, q) ==
    IF ~q.in_function THEN Err(q, "return statement is not allowed here!")
    ELSE IF OutOfTokens(q) THEN Crash(q)
    ELSE IF matches(q, {"NEWLINE", "EOF"})
    THEN Ok(consume(q), ReturnStatement(current(p), NoneNode))
    ELSE return_statement_e(p, expression(q))

return_statement(p) ==
    IF ~matches(p, {"RETURN"}) THEN Ok(p, NoneNode)
    ELSE
    return_statement_q(p, consume(p))

\* constructor, once o is known
constructor_o(type_, name, o) ==
        IF o.r # "ok" THEN o
    ELSE finish_arguments(o.p, LifecycleStatement("CONSTRUCTOR", MkType(type_), TokLoc(name)))

\* constructor, once q is known
constructor_q(type_, name, q) ==
    IF TokType(name).keyword # type_ THEN Err(q, "expected the class type in constructor")
    ELSE constructor_o(type_, name, expect(q, "PAREN_OPEN", "expected PAREN_OPEN"))

\* constructor, once name is known
constructor_name(p, type_, name) ==
    constructor_q(type_, name, consume(p))

\* _constructor(type_): the class type keyword is type_
constructor(p, type_) ==
    IF OutOfTokens(p) THEN Crash(p)
    ELSE IF ~matches(p, {"TYPE"}) THEN Ok(p, NoneNode)
    ELSE
    constructor_name(p, type_, current(p))

\* destructor, once c is known
destructor_c(type_, q, c) ==
        IF c.r # "ok" THEN c
    ELSE finish_function_statement(
             c.p, LifecycleStatement("DESTRUCTOR", MkType(type_), TokLoc(current(q))))

\* destructor, once o is known
destructor_o(type_, q, o) ==
        IF o.r # "ok" THEN o
    ELSE destructor_c(type_, q, expect(o.p, "PAREN_CLOSE", "expected PAREN_CLOSE"))

\* destructor, once q is known
destructor_q(type_, q) ==
    IF OutOfTokens(q) THEN Crash(q)
    ELSE IF ~matches(q, {"TYPE"}) THEN Err(q, "expected the class type in destructor!")
    ELSE IF TokType(current(q)).keyword # type_
    THEN Err(consume(q), "expected the class type in destructor")
    ELSE destructor_o(type_, q, expect(consume(q), "PAREN_OPEN", "expected PAREN_OPEN"))

\* _destructor(type_)
destructor(p, type_) ==
    IF OutOfTokens(p) THEN Crash(p)
    ELSE IF ~matches(p, {"TILDE"}) THEN Ok(p, NoneNode)
    ELSE
    destructor_q(type_, consume(p))

\* class_body_loop, once d is known
class_body_loop_d(p, type_, class_stmt, d) ==
    IF d.r # "ok" THEN d
    ELSE IF ~IsNone(d.n)
    THEN IF ~IsNone(class_stmt.destructor)
         THEN Err(d.p, "found a destructor while another descructor was already found!")
         ELSE class_body_loop(d.p, type_, [class_stmt EXCEPT !.destructor = d.n])
    ELSE Err(p, "expected FunctionStatement, VarDeclStatement, Constructor or Destructor")

\* class_body_loop, once c is known
class_body_loop_c(p, type_, class_stmt, c) ==
    IF c.r # "ok" THEN c
    ELSE IF ~IsNone(c.n)
    THEN IF ~IsNone(class_stmt.constructor)
         THEN Err(c.p, "found a constructor while another constructor was already found!")
         ELSE class_body_loop(c.p, type_, [class_stmt EXCEPT !.constructor = c.n])
    ELSE
    class_body_loop_d(p, type_, class_stmt, destructor(p, type_))

\* class_body_loop, once t is known
class_body_loop_t(p, type_, class_stmt, t) ==
    IF t.r # "ok" THEN t
    ELSE IF ~IsNone(t.n)
    THEN IF t.n.k = "FunctionStatement"
         THEN class_body_loop(t.p, type_, [class_stmt EXCEPT !.functions = Append(@, t.n)])
         ELSE class_body_loop(t.p, type_, [class_stmt EXCEPT !.variables = Append(@, t.n)])
    ELSE
    class_body_loop_c(p, type_, class_stmt, constructor(p, type_))

\* class_statement: the loop over the members (561-595)
class_body_loop(p, type_, class_stmt) ==
    IF OutOfTokens(p) THEN Crash(p)
    ELSE IF matches(p, {"DEDENT"}) THEN Ok(consume(p), class_stmt)
    ELSE
    class_body_loop_t(p, type_, class_stmt, type_statement(p, TRUE))

\* class_statement, once b is known
class_statement_b(b) ==
    IF b.r # "ok" THEN b
    ELSE Ok([b.p EXCEPT !.class_type = "None"], b.n)

\* class_statement, once h is known
class_statement_h(class_type, loc, h) ==
    IF ~h.hit THEN Ok(h.p, ClassStatement(class_type, loc))
    ELSE class_statement_b(
                  class_body_loop([h.p EXCEPT !.class_type = class_type],
                                  class_type, ClassStatement(class_type, loc)))

\* class_statement, once nl is known
class_statement_nl(class_type, loc, nl) ==
        IF nl.r # "ok" THEN nl
    ELSE class_statement_h(class_type, loc, has_indent(nl.p))

\* class_statement, once c is known
class_statement_c(class_type, loc, c) ==
    IF c.r # "ok" THEN c
    ELSE class_statement_nl(class_type, loc, expect_newline(c.p, TRUE))

\* class_statement, once loc is known
class_statement_loc(name, class_type, loc) ==
    class_statement_c(class_type, loc, expect(name.p, "COLON", "expected COLON"))

\* class_statement, once class_type is known
class_statement_class_type(tok, name, class_type) ==
    class_statement_loc(name, class_type, LocAdd(TokLoc(tok), TokLoc(name.n)))

\* class_statement, once name is known
class_statement_name(tok, name) ==
    IF name.r # "ok" THEN name
    ELSE IF TokType(name.n).class # "ClassType" THEN Crash(name.p)
    ELSE
    class_statement_class_type(tok, name, TokType(name.n).keyword)

\* class_statement, once tok is known
class_statement_tok(p, tok) ==
    class_statement_name(tok, expect(consume(p), "TYPE", "expected TYPE"))

\* class_statement: _class_type stays set when a member raises
class_statement(p) ==
    IF ~matches(p, {"CLASS"}) THEN Ok(p, NoneNode)
    ELSE
    class_statement_tok(p, current(p))

\* loop_control_statement, once nl is known
loop_control_statement_nl(tok, nl) ==
    IF nl.r # "ok" THEN nl
    ELSE IF tok.type = "BREAK" THEN Ok(nl.p, BreakStatement(TokLoc(tok)))
    ELSE IF tok.type = "BREAKALL"
    THEN Ok(nl.p, BreakallStatement(TokLoc(tok), nl.p.breakall_label))
    ELSE Ok(nl.p, ContinueStatement(TokLoc(tok)))

\* loop_control_statement, once tok is known
loop_control_statement_tok(p, tok) ==
    loop_control_statement_nl(tok, expect_newline(consume(p), TRUE))

loop_control_statement(p) ==
    IF p.loop_count = 0 THEN Ok(p, NoneNode)
    ELSE IF ~matches(p, {"BREAK", "BREAKALL", "CONTINUE"}) THEN Ok(p, NoneNode)
    ELSE
    loop_control_statement_tok(p, current(p))

\* expression_statement, once nl is known
expression_statement_nl(e, nl) ==
    IF nl.r # "ok" THEN nl ELSE Ok(nl.p, ExpressionStatement(e.n))

\* expression_statement, once a is known
expression_statement_a(must_end_with_newline, e, a) ==
        IF a.r # "ok" \/ ~IsNone(a.n) THEN a
    ELSE expression_statement_nl(e, expect_newline(e.p, must_end_with_newline))

\* expression_statement, once e is known
expression_statement_e(must_end_with_newline, e) ==
    IF e.r # "ok" THEN e
    ELSE expression_statement_a(must_end_with_newline, e,
                  assignment_statement(e.p, e.n, must_end_with_newline))

\* statement: the fall back to a bare expression or an assignment (661-669)
expression_statement(p, must_end_with_newline) ==
    expression_statement_e(must_end_with_newline, expression(p))

\* the chain of statement(): the first alternative that does not return None
FirstOf(r, rest) == IF r.r # "ok" \/ ~IsNone(r.n) THEN r ELSE rest

\* statement, once t is known
statement_t(p, must_end_with_newline, t) ==
    IF t.r # "ok" \/ ~IsNone(t.n) THEN t
    ELSE FirstOf(return_statement(p),
         FirstOf(print_statement(p),
         FirstOf(if_statement(p),
         FirstOf(for_loop_statement(p),
         FirstOf(while_loop_statement(p),
         FirstOf(class_statement(p),
         FirstOf(loop_control_statement(p),
                 expression_statement(p, must_end_with_newline))))))))

statement(p, must_end_with_newline) ==
    statement_t(p, must_end_with_newline, type_statement(p, must_end_with_newline))

----------------------------------------------------------------------------
(* AstGenerator.generate (ast_generator.py 911-935)                        *)

RECURSIVE skip_to_newline(_)
\* while not self.match(NEWLINE, EOF): self.consume()
skip_to_newline(p) ==
    IF OutOfTokens(p) THEN Crash(p)
    ELSE IF matches(p, {"NEWLINE", "EOF"}) THEN Ok(consume(p), NoneNode)
    ELSE skip_to_newline(consume(p))

RECURSIVE skip_indents(_)
\* while self.match(INDENT, DEDENT): pass
skip_indents(p) ==
    IF OutOfTokens(p) THEN Crash(p)
    ELSE IF matches(p, {"INDENT", "DEDENT"}) THEN skip_indents(consume(p))
    ELSE Ok(p, NoneNode)

\* recover, once nl is known
recover_nl(nl) ==
    IF nl.r # "ok" THEN nl
    ELSE IF is_at_end(nl.p) THEN nl
    ELSE skip_indents(nl.p)

\* the except clause of generate
recover(p) ==
    recover_nl(skip_to_newline(p))

\* e: the message and the index of the token the error was raised at
TaplError(r) == [msg |-> r.msg, at |-> r.p.current_index]

\* GenerateStep, once rec is known
GenerateStep_rec(s, rec) ==
    /\ errors' = Append(errors, TaplError(s))
    /\ parser' = rec.p
    /\ phase' = IF rec.r = "ok" THEN phase ELSE "crashed"
    /\ UNCHANGED ast

\* GenerateStep, once s is known
GenerateStep_s(s) ==
    CASE s.r = "ok" ->
           /\ ast' = Append(ast, s.n)
           /\ parser' = s.p
           /\ UNCHANGED <<errors, phase>>
      [] s.r = "tapl" ->
           GenerateStep_rec(s, recover(s.p))
      [] OTHER ->
           /\ parser' = s.p
           /\ phase' = "crashed"
           /\ UNCHANGED <<ast, errors>>

\* one iteration of the while loop of generate
GenerateStep ==
    /\ phase = "generate"
    /\ ~is_at_end(parser)
    /\ GenerateStep_s(statement(parser, TRUE))
    /\ UNCHANGED <<source, tokens, pass, registry, output>>

\* the end of generate: exit(1) when errors were found
GenerateEnd ==
    /\ phase = "generate"
    /\ is_at_end(parser)
    /\ phase' = IF errors # <<>> THEN "exit1" ELSE "scoping"
    /\ UNCHANGED <<source, tokens, parser, ast, errors, pass, registry, output>>

----------------------------------------------------------------------------
(* Scopes (ast_checks/scope_wrapper.py).  A ScopeWrapper is the sequence   *)
(* of its scopes, the global scope first and the innermost scope last; a   *)
(* scope maps identifiers to types and function names to functions.        *)

Last(seq) == seq[Len(seq)]
Front(seq) == SubSeq(seq, 1, Len(seq) - 1)

Scope == [identifiers |-> <<>>, functions |-> <<>>]

ScopeWrapper == <<Scope>>

\* dict[key] = value
Put(dict, key, value) ==
    [x \in DOMAIN dict \cup {key} |-> IF x = key THEN value ELSE dict[x]]

\* ScopeWrapper.add_scope
add_scope(wrapper) == Append(wrapper, Scope)

\* ScopeWrapper.remove_scope
remove_scope(wrapper) == Front(wrapper)

\* ScopeWrapper.scope.parent is None
is_global_scope(wrapper) == Len(wrapper) = 1

\* Scope.add_identifier, on the innermost scope
scope_add_identifier(wrapper, identifier, type_) ==
    [wrapper EXCEPT ![Len(wrapper)].identifiers = Put(@, identifier, type_)]

\* Scope.add_function, on the innermost scope
scope_add_function(wrapper, name, function) ==
    [wrapper EXCEPT ![Len(wrapper)].functions = Put(@, name, function)]

RECURSIVE scope_get_identifier(_, _)
\* Scope.get_identifier: the lookup walks outward; n is None when there is none
scope_get_identifier(wrapper, identifier) ==
    IF wrapper = <<>> THEN NoneNode
    ELSE IF identifier \in DOMAIN Last(wrapper).identifiers
    THEN Last(wrapper).identifiers[identifier]
    ELSE scope_get_identifier(Front(wrapper), identifier)

RECURSIVE scope_get_function(_, _)
\* Scope.get_function
scope_get_function(wrapper, name) ==
    IF wrapper = <<>> THEN NoneNode
    ELSE IF name \in DOMAIN Last(wrapper).functions
    THEN Last(wrapper).functions[name]
    ELSE scope_get_function(Front(wrapper), name)

----------------------------------------------------------------------------
(* The machinery of a pass (ast_checks/pass_base.py, repeated in           *)
(* ast_checks/typing_pass.py 86-174).  A visit takes the pass state s and  *)
(* a node and returns [r, s, n, msg]: the outcome, the pass state and the  *)
(* node with the annotations the visit made.                               *)

\* PassBase.__init__; class_scopes, function_stack and identifier_stack are
\* the additions of TypingPass.__init__
InitPass ==
    [scope_wrapper |-> ScopeWrapper, stash |-> <<>>, errors |-> <<>>,
     class_scopes |-> <<>>, live_class |-> "None",
     function_stack |-> <<>>, identifier_stack |-> <<>>, index |-> 1]

POk(s, n) == [r |-> "ok", s |-> s, n |-> n, msg |-> ""]
PErr(s, n, msg) == [r |-> "tapl", s |-> s, n |-> n, msg |-> msg]
PCrash(s, n) == [r |-> "crash", s |-> s, n |-> n, msg |-> "AssertionError"]

\* the same outcome with another node
WithNode(res, n) == [res EXCEPT !.n = n]

\* an add_identifier that looks for the name in every scope
add_identifier_any_scope(s, identifier_token, type_) ==
    IF "k" \notin DOMAIN scope_get_identifier(s.scope_wrapper, identifier_token.value)
    THEN PErr(s, NoneNode, "identifier already exists!")
    ELSE POk([s EXCEPT !.scope_wrapper =
                  scope_add_identifier(@, identifier_token.value, type_)], NoneNode)

add_identifier(s, identifier_token, type_) ==
    IF identifier_token.value \in DOMAIN Last(s.scope_wrapper).identifiers
    THEN PErr(s, NoneNode, "identifier already exists!")
    ELSE POk([s EXCEPT !.scope_wrapper =
                  scope_add_identifier(@, identifier_token.value, type_)], NoneNode)

\* get_identifier_type, once type_ is known
get_identifier_type_type_(s, type_) ==
    IF "k" \in DOMAIN type_ THEN PErr(s, NoneNode, "unknown identifier!")
    ELSE POk(s, type_)

\* n is the type
get_identifier_type(s, identifier_token) ==
    get_identifier_type_type_(s, scope_get_identifier(s.scope_wrapper, identifier_token.value))

\* new_scope: entering the with statement
new_scope_enter(s) == [s EXCEPT !.scope_wrapper = add_scope(@)]

\* new_scope whose exit is skipped when the body raised
new_scope_exit_on_success(res) ==
    IF res.r = "ok" THEN [res EXCEPT !.s.scope_wrapper = remove_scope(@)] ELSE res

\* new_scope: the finally clause, run on every outcome of the body
new_scope_exit(res) == [res EXCEPT !.s.scope_wrapper = remove_scope(@)]

\* clean_scope: the assertion on entering
clean_scope_allowed(s) == s.stash = <<>>

\* a clean_scope that keeps the surrounding scopes for the body
clean_scope_enter_keeping(s) ==
    [s EXCEPT !.stash = <<s.scope_wrapper>>]

\* clean_scope: entering the with statement
clean_scope_enter(s) ==
    [s EXCEPT !.stash = <<s.scope_wrapper>>, !.scope_wrapper = ScopeWrapper]

\* clean_scope: the finally clause, run on every outcome of the body; the
\* table of class scopes holds the clean scope itself
clean_scope_exit(res) ==
    IF res.s.stash = <<>> THEN PCrash(res.s, res.n)
    ELSE [res EXCEPT
            !.s.scope_wrapper = res.s.stash[1],
            !.s.stash = <<>>,
            !.s.live_class = "None",
            !.s.class_scopes =
                IF res.s.live_class = "None" THEN @
                ELSE Put(@, res.s.live_class, res.s.scope_wrapper)]

\* the ScopeWrapper stored in class_scopes under the keyword
class_scope(s, keyword) ==
    IF keyword = s.live_class THEN s.scope_wrapper ELSE s.class_scopes[keyword]

----------------------------------------------------------------------------
(* The scoping pass (visitors/scoping_pass_expression_visitor.py,          *)
(* visitors/scoping_pass_statement_visitor.py); it leaves the AST as it is *)

RECURSIVE scoping_parse_expression(_, _)
RECURSIVE scoping_parse_expressions(_, _)
RECURSIVE scoping_parse_statement(_, _)
RECURSIVE scoping_parse_statements(_, _)
RECURSIVE scoping_else_if_blocks(_, _)

\* PassBase.parse_statement and parse_expression: the except clause
catch(s, res) ==
    IF res.r = "tapl"
    THEN POk([res.s EXCEPT !.errors = Append(@, res.msg)], res.n)
    ELSE res

\* scoping_parse_expressions, once e is known
scoping_parse_expressions_e(expressions, e) ==
    IF e.r # "ok" THEN e ELSE scoping_parse_expressions(e.s, Tail(expressions))

\* for element in ...: parse_expression(element); elements that are no
\* expressions are passed over
scoping_parse_expressions(s, expressions) ==
    IF expressions = <<>> THEN POk(s, NoneNode)
    ELSE IF Head(expressions).k = "Token"
    THEN scoping_parse_expressions(s, Tail(expressions))
    ELSE scoping_parse_expressions_e(expressions, scoping_parse_expression(s, Head(expressions)))

\* scoping_visit_expression, once l is known
scoping_visit_expression_l(e, l) ==
    IF l.r # "ok" THEN l ELSE scoping_parse_expression(l.s, e.right)

\* scoping_visit_expression, once c is known
scoping_visit_expression_c(e, c) ==
    IF c.r # "ok" THEN c ELSE scoping_parse_expressions(c.s, e.arguments)

\* the visit_... methods of ScopingPassExpressionVisitor
scoping_visit_expression(s, e) ==
    CASE e.k = "BinaryExpression" ->
            scoping_visit_expression_l(e, scoping_parse_expression(s, e.left))
      [] e.k = "CallExpression" ->
            scoping_visit_expression_c(e, scoping_parse_expression(s, e.expression))
      [] e.k = "IdentifierExpression" -> scoping_parse_expression(s, e.inner_expression)
      [] e.k = "StringEqualExpression" -> scoping_parse_expression(s, e.inner)
      [] e.k = "StringExpression" -> scoping_parse_expressions(s, e.string_elements)
      [] e.k = "TokenExpression" ->
            IF e.token.type = "IDENTIFIER"
            THEN WithNode(get_identifier_type(s, e.token), NoneNode)
            ELSE POk(s, NoneNode)
      [] e.k \in {"TypeCastExpression", "UnaryExpression"} ->
            scoping_parse_expression(s, e.expression)
      [] OTHER -> PCrash(s, NoneNode)

scoping_parse_expression(s, e) ==
    IF IsNone(e) THEN POk(s, NoneNode) ELSE catch(s, scoping_visit_expression(s, e))

\* scoping_parse_statements, once r is known
scoping_parse_statements_r(statements, r) ==
    IF r.r # "ok" THEN r ELSE scoping_parse_statements(r.s, Tail(statements))

scoping_parse_statements(s, statements) ==
    IF statements = <<>> THEN POk(s, NoneNode)
    ELSE scoping_parse_statements_r(statements, scoping_parse_statement(s, Head(statements)))

\* add_identifier for every argument of a function
RECURSIVE add_arguments(_, _)
\* add_arguments, once a is known
add_arguments_a(arguments, a) ==
    IF a.r # "ok" THEN a ELSE add_arguments(a.s, Tail(arguments))

add_arguments(s, arguments) ==
    IF arguments = <<>> THEN POk(s, NoneNode)
    ELSE add_arguments_a(arguments, add_identifier(s, Head(arguments).name, Head(arguments).type_))

\* scoping_block, once c is known
scoping_block_c(statements, c) ==
    new_scope_exit(IF c.r # "ok" THEN c ELSE scoping_parse_statements(c.s, statements))

\* an expression and a block of statements in a new scope
scoping_block(s, e, statements) ==
    scoping_block_c(statements, scoping_parse_expression(new_scope_enter(s), e))

\* scoping_else_if_blocks, once b is known
scoping_else_if_blocks_b(blocks, b) ==
    IF b.r # "ok" THEN b ELSE scoping_else_if_blocks(b.s, Tail(blocks))

scoping_else_if_blocks(s, blocks) ==
    IF blocks = <<>> THEN POk(s, NoneNode)
    ELSE scoping_else_if_blocks_b(blocks,
                  scoping_block(s, Head(blocks).expression, Head(blocks).statements))

\* scoping_visit_for_loop_statement, once l is known
scoping_visit_for_loop_statement_l(stmt, i, c, l) ==
    new_scope_exit(
        IF i.r # "ok" THEN i
        ELSE IF c.r # "ok" THEN c
        ELSE IF l.r # "ok" THEN l
        ELSE scoping_parse_statements(l.s, stmt.statements))

\* scoping_visit_for_loop_statement, once c is known
scoping_visit_for_loop_statement_c(stmt, i, c) ==
    scoping_visit_for_loop_statement_l(stmt, i, c, scoping_parse_statement(c.s, stmt.loop))

\* scoping_visit_for_loop_statement, once i is known
scoping_visit_for_loop_statement_i(stmt, i) ==
    scoping_visit_for_loop_statement_c(stmt, i, scoping_parse_expression(i.s, stmt.check))

scoping_visit_for_loop_statement(s, stmt) ==
    scoping_visit_for_loop_statement_i(stmt, scoping_parse_statement(new_scope_enter(s), stmt.init))

\* scoping_visit_function_statement, once a is known
scoping_visit_function_statement_a(stmt, a) ==
    new_scope_exit(
        IF a.r # "ok" THEN a
        ELSE scoping_parse_statements(a.s, stmt.statements))

\* scoping_visit_function_statement, once f is known
scoping_visit_function_statement_f(stmt, f) ==
    IF f.r # "ok" THEN f
    ELSE scoping_visit_function_statement_a(stmt,
                  add_arguments(new_scope_enter(f.s), stmt.arguments))

scoping_visit_function_statement(s, stmt) ==
    scoping_visit_function_statement_f(stmt,
             add_identifier(s, stmt.name, TokType(stmt.return_type)))

\* scoping_visit_if_statement, once ei is known
scoping_visit_if_statement_ei(stmt, ei) ==
    IF ei.r # "ok" THEN ei
    ELSE IF stmt.else_statements = <<>> THEN ei
    ELSE new_scope_exit(
             scoping_parse_statements(new_scope_enter(ei.s),
                                      stmt.else_statements))

\* scoping_visit_if_statement, once b is known
scoping_visit_if_statement_b(stmt, b) ==
    IF b.r # "ok" THEN b
    ELSE scoping_visit_if_statement_ei(stmt,
                   scoping_else_if_blocks(b.s, stmt.else_if_statement_blocks))

scoping_visit_if_statement(s, stmt) ==
    scoping_visit_if_statement_b(stmt, scoping_block(s, stmt.expression, stmt.statements))

\* scoping_visit_var_decl_statement, once i is known
scoping_visit_var_decl_statement_i(stmt, i) ==
    IF i.r # "ok" THEN i
    ELSE add_identifier(i.s, stmt.name, stmt.type_)

scoping_visit_var_decl_statement(s, stmt) ==
    scoping_visit_var_decl_statement_i(stmt, scoping_parse_expression(s, stmt.initial_value))

\* scoping_visit_statement, once e is known
scoping_visit_statement_e(stmt, e) ==
    IF e.r # "ok" THEN e ELSE scoping_parse_expression(e.s, stmt.value)

\* the visit_... methods of ScopingPassStatementVisitor
scoping_visit_statement(s, stmt) ==
    CASE stmt.k = "AssignmentStatement" ->
            scoping_visit_statement_e(stmt, scoping_parse_expression(s, stmt.expression))
      [] stmt.k \in {"BreakStatement", "BreakallStatement", "ContinueStatement",
                          "ClassStatement"} -> POk(s, NoneNode)
      [] stmt.k = "ExpressionStatement" ->
            scoping_parse_expression(s, stmt.expression)
      [] stmt.k = "ForLoopStatement" -> scoping_visit_for_loop_statement(s, stmt)
      [] stmt.k = "FunctionStatement" -> scoping_visit_function_statement(s, stmt)
      [] stmt.k = "IfStatement" -> scoping_visit_if_statement(s, stmt)
      [] stmt.k = "ListStatement" ->
            add_identifier(s, stmt.name, stmt.list_type)
      [] stmt.k \in {"PrintStatement", "ReturnStatement"} ->
            scoping_parse_expression(s, stmt.value)
      [] stmt.k = "VarDeclStatement" -> scoping_visit_var_decl_statement(s, stmt)
      [] OTHER -> PCrash(s, NoneNode)

scoping_parse_statement(s, stmt) ==
    IF IsNone(stmt) THEN POk(s, NoneNode)
    ELSE catch(s, scoping_visit_statement(s, stmt))

----------------------------------------------------------------------------
(* The typing pass: expressions (visitors/typing_pass_expression_visitor   *)
(* .py, the same code as ast_checks/typing_pass.py 366-572).  An error of  *)
(* an expression is thrown toward the surrounding statement.               *)

RECURSIVE get_expression_type(_)
\* Utils.get_expression_type: the type of the innermost expression of a chain
get_expression_type(e) ==
    IF e.k = "IdentifierExpression" /\ ~IsNone(e.inner_expression)
    THEN get_expression_type(e.inner_expression)
    ELSE e.type_

\* a check_types that lets any two numeric types through
check_types_promoting(left, right) ==
    IF left.class = "NumericType" /\ right.class = "NumericType"
    THEN [ok |-> TRUE, type_ |-> IF right.keyword = "base" THEN left ELSE right]
    ELSE IF left.keyword = right.keyword THEN [ok |-> TRUE, type_ |-> left]
    ELSE [ok |-> FALSE, type_ |-> UnknownType]

\* check_types(left, right): [ok, type_]
check_types(left, right) ==
    IF left.class = "NumericType" /\ right.class = "NumericType" /\ left.keyword = "base"
    THEN [ok |-> TRUE, type_ |-> IF right.keyword = "base" THEN left ELSE right]
    ELSE IF left.class = "NumericType" /\ right.class = "NumericType" /\ right.keyword = "base"
    THEN [ok |-> TRUE, type_ |-> left]
    ELSE IF left.keyword = right.keyword THEN [ok |-> TRUE, type_ |-> left]
    ELSE [ok |-> FALSE, type_ |-> UnknownType]

check_expression_types(left, right) ==
    check_types(get_expression_type(left), get_expression_type(right))

\* ListType.callable_functions: method name to the keyword of the returned type
callable_functions(type_) == [size |-> "u64"]

RECURSIVE typing_parse_expression(_, _)
RECURSIVE typing_parse_expressions(_, _)
RECURSIVE check_arguments(_, _, _, _)

\* typing_parse_expressions, once rest is known
typing_parse_expressions_rest(expressions, rest) ==
    WithNode(rest, <<Head(expressions)>> \o rest.n)

\* typing_parse_expressions, once rest is known
typing_parse_expressions_rest2(e, rest) ==
    WithNode(rest, <<e.n>> \o rest.n)

\* typing_parse_expressions, once e is known
typing_parse_expressions_e(expressions, e) ==
    IF e.r # "ok" THEN WithNode(e, <<e.n>> \o Tail(expressions))
    ELSE typing_parse_expressions_rest2(e,
                     typing_parse_expressions(e.s, Tail(expressions)))

\* for element in ...: parse_expression(element); n is the list with the
\* annotated elements
typing_parse_expressions(s, expressions) ==
    IF expressions = <<>> THEN POk(s, <<>>)
    ELSE IF Head(expressions).k = "Token"
    THEN typing_parse_expressions_rest(expressions, typing_parse_expressions(s, Tail(expressions)))
    ELSE typing_parse_expressions_e(expressions, typing_parse_expression(s, Head(expressions)))

\* typing_visit_binary_expression, once c is known
typing_visit_binary_expression_c(e, l, r, c) ==
    IF l.r # "ok" THEN WithNode(l, [e EXCEPT !.left = l.n])
    ELSE IF r.r # "ok" THEN WithNode(r, [e EXCEPT !.left = l.n, !.right = r.n])
    ELSE IF ~c.ok
    THEN PErr(r.s, [e EXCEPT !.left = l.n, !.right = r.n], "invalid types provided")
    ELSE POk(r.s, [e EXCEPT !.left = l.n, !.right = r.n, !.type_ = c.type_])

\* typing_visit_binary_expression, once r is known
typing_visit_binary_expression_r(e, l, r) ==
    typing_visit_binary_expression_c(e, l, r, check_expression_types(l.n, r.n))

\* typing_visit_binary_expression, once l is known
typing_visit_binary_expression_l(e, l) ==
    typing_visit_binary_expression_r(e, l, typing_parse_expression(l.s, e.right))

typing_visit_binary_expression(s, e) ==
    typing_visit_binary_expression_l(e, typing_parse_expression(s, e.left))

\* check_arguments, once c is known
check_arguments_c(required, passed, done, a, c) ==
    IF a.r # "ok" THEN WithNode(a, done \o <<a.n>> \o Tail(passed))
    ELSE IF ~c.ok
    THEN PErr(a.s, done \o <<a.n>> \o Tail(passed), "expected argument of type")
    ELSE check_arguments(a.s, Tail(required), Tail(passed), Append(done, a.n))

\* check_arguments, once a is known
check_arguments_a(required, passed, done, a) ==
    check_arguments_c(required, passed, done, a,
                  check_types(Head(required).type_, get_expression_type(a.n)))

\* check_function: the loop over the arguments; n is the list of arguments
check_arguments(s, required, passed, done) ==
    IF passed = <<>> THEN POk(s, done)
    ELSE check_arguments_a(required, passed, done, typing_parse_expression(s, Head(passed)))

\* check_function, once a is known
check_function_a(e, a) ==
    WithNode(a, [e EXCEPT !.arguments = a.n])

\* check_function(function, expression); n is the call with its arguments
check_function(s, function, e) ==
    IF Len(function.arguments) # Len(e.arguments)
    THEN PErr(s, e, "wrong number of arguments")
    ELSE check_function_a(e, check_arguments(s, function.arguments, e.arguments, <<>>))

\* the call and its callee get the type
call_typed(e, type_) == [e EXCEPT !.type_ = type_, !.expression.type_ = type_]

\* typing_call_of_list, once name is known
typing_call_of_list_name(type_, a, e1, name) ==
    IF a.r # "ok" THEN WithNode(a, e1)
    ELSE IF name \in DOMAIN callable_functions(type_)
    THEN POk(a.s, call_typed(e1, MkType(callable_functions(type_)[name])))
    ELSE PErr(a.s, e1, "identifier is not callable!")

\* typing_call_of_list, once e1 is known
typing_call_of_list_e1(e, type_, a, e1) ==
    typing_call_of_list_name(type_, a, e1, e.expression.identifier_token.value)

\* typing_call_of_list, once a is known
typing_call_of_list_a(e, type_, a) ==
    typing_call_of_list_e1(e, type_, a, [e EXCEPT !.arguments = a.n])

\* visit_call_expression: a method of a list (59-70)
typing_call_of_list(s, e, type_) ==
    typing_call_of_list_a(e, type_, typing_parse_expressions(s, e.arguments))

\* typing_call_of_class, once c is known
typing_call_of_class_c(s, e1, known, function, c) ==
    IF ~known THEN PCrash(s, e1)
    ELSE IF "k" \in DOMAIN function THEN PErr(s, e1, "identifier is not callable!")
    ELSE IF c.r # "ok" THEN c
    ELSE POk(c.s, call_typed(c.n, TokType(function.return_type)))

\* typing_call_of_class, once function is known
typing_call_of_class_function(s, e1, known, function) ==
    typing_call_of_class_c(s, e1, known, function, check_function(s, function, e1))

\* typing_call_of_class, once known is known
typing_call_of_class_known(s, e, type_, e1, known) ==
    typing_call_of_class_function(s, e1, known,
                    scope_get_function(class_scope(s, type_.keyword),
                                       e.expression.identifier_token.value))

\* typing_call_of_class, once e1 is known
typing_call_of_class_e1(s, e, type_, e1) ==
    typing_call_of_class_known(s, e, type_, e1,
                 type_.keyword = s.live_class \/ type_.keyword \in DOMAIN s.class_scopes)

\* visit_call_expression: a method of a class (71-80)
typing_call_of_class(s, e, type_) ==
    typing_call_of_class_e1(s, e, type_, [e EXCEPT !.class_type = type_.keyword])

\* typing_call_of_function, once t is known
typing_call_of_function_t(s, e, function, c, t) ==
    IF "k" \in DOMAIN function THEN PErr(s, e, "identifier is not callable!")
    ELSE IF c.r # "ok" THEN c
    ELSE IF t.r # "ok" THEN WithNode(t, c.n)
    ELSE POk(c.s, call_typed(c.n, t.n))

\* typing_call_of_function, once c is known
typing_call_of_function_c(s, e, function, c) ==
    typing_call_of_function_t(s, e, function, c,
             get_identifier_type(c.s, e.expression.identifier_token))

\* typing_call_of_function, once function is known
typing_call_of_function_function(s, e, function) ==
    typing_call_of_function_c(s, e, function, check_function(s, function, e))

\* visit_call_expression: a function of the scopes (86-93)
typing_call_of_function(s, e) ==
    typing_call_of_function_function(s, e,
                    scope_get_function(s.scope_wrapper, e.expression.identifier_token.value))

\* typing_visit_call_expression, once type_ is known
typing_visit_call_expression_type_(s, e, type_) ==
    IF type_.class = "ListType" THEN typing_call_of_list(s, e, type_)
    ELSE IF type_.class = "ClassType" THEN typing_call_of_class(s, e, type_)
    ELSE PErr(s, e, "identifier is not callable!")

typing_visit_call_expression(s, e) ==
    IF ~IsNone(e.expression.inner_expression) THEN PCrash(s, e)
    ELSE IF s.identifier_stack # <<>>
    THEN typing_visit_call_expression_type_(s, e, Last(s.identifier_stack))
    ELSE typing_call_of_function(s, e)

\* typing_inner_expression, once popped is known
typing_inner_expression_popped(e, type_, i, popped) ==
    IF i.r # "ok" THEN WithNode(popped, [e EXCEPT !.inner_expression = i.n])
    ELSE WithNode(popped, [e EXCEPT !.inner_expression = i.n, !.type_ = type_])

\* typing_inner_expression, once i is known
typing_inner_expression_i(e, type_, i) ==
    typing_inner_expression_popped(e, type_, i, [i EXCEPT !.s.identifier_stack = Front(@)])

\* typing_inner_expression, once pushed is known
typing_inner_expression_pushed(e, type_, pushed) ==
    typing_inner_expression_i(e, type_, typing_parse_expression(pushed, e.inner_expression))

\* visit_identifier_expression: the try statement inside the new scope (105-111)
typing_inner_expression(s, e, type_) ==
    typing_inner_expression_pushed(e, type_, [s EXCEPT !.identifier_stack = Append(@, type_)])

\* typing_visit_identifier_expression, once again is known
typing_visit_identifier_expression_again(e1, again) ==
    IF again.r # "ok" THEN WithNode(again, e1)
    ELSE POk(again.s, [e1 EXCEPT !.type_ = again.n])

\* typing_visit_identifier_expression, once left is known
typing_visit_identifier_expression_left(e, e1, left) ==
    typing_visit_identifier_expression_again(e1, get_identifier_type(left.s, e.identifier_token))

\* typing_visit_identifier_expression, once e1 is known
typing_visit_identifier_expression_e1(e, t, type_, e1) ==
    IF t.r # "ok" THEN new_scope_exit(WithNode(t, e))
    ELSE IF ~IsNone(e.inner_expression)
    THEN new_scope_exit(typing_inner_expression(t.s, e1, type_))
    ELSE typing_visit_identifier_expression_left(e, e1, new_scope_exit(POk(t.s, e1)))

\* typing_visit_identifier_expression, once type_ is known
typing_visit_identifier_expression_type_(e, t, type_) ==
    typing_visit_identifier_expression_e1(e, t, type_,
              [e EXCEPT
                 !.class_type = IF type_.class = "ClassType" THEN type_.keyword ELSE @,
                 !.list_type = IF type_.class = "ListType" THEN type_.keyword ELSE @])

\* typing_visit_identifier_expression, once t is known
typing_visit_identifier_expression_t(e, t) ==
    typing_visit_identifier_expression_type_(e, t, t.n)

typing_visit_identifier_expression(s, e) ==
    typing_visit_identifier_expression_t(e,
             get_identifier_type(new_scope_enter(s), e.identifier_token))

\* typing_visit_string_equal_expression_untyped, once i is known
typing_visit_string_equal_expression_untyped_i(e, i) ==
    WithNode(i, [e EXCEPT !.inner = i.n])

\* visit_string_equal_expression without the assignment of the type
typing_visit_string_equal_expression_untyped(s, e) ==
    typing_visit_string_equal_expression_untyped_i(e, typing_parse_expression(s, e.inner))

\* typing_visit_string_equal_expression, once i is known
typing_visit_string_equal_expression_i(e, i) ==
    IF i.r # "ok" THEN WithNode(i, [e EXCEPT !.inner = i.n])
    ELSE POk(i.s, [e EXCEPT !.inner = i.n, !.type_ = i.n.type_])

typing_visit_string_equal_expression(s, e) ==
    typing_visit_string_equal_expression_i(e, typing_parse_expression(s, e.inner))

\* typing_visit_string_expression, once a is known
typing_visit_string_expression_a(e, a) ==
    IF a.r # "ok" THEN WithNode(a, [e EXCEPT !.string_elements = a.n])
    ELSE POk(a.s, [e EXCEPT !.string_elements = a.n, !.type_ = MkType("string")])

typing_visit_string_expression(s, e) ==
    typing_visit_string_expression_a(e, typing_parse_expressions(s, e.string_elements))

\* typing_visit_this_expression, once i is known
typing_visit_this_expression_i(e, i) ==
    IF i.r # "ok" THEN WithNode(i, [e EXCEPT !.inner_expression = i.n])
    ELSE POk(i.s, [e EXCEPT !.inner_expression = i.n, !.type_ = i.n.type_])

typing_visit_this_expression(s, e) ==
    typing_visit_this_expression_i(e, typing_parse_expression(s, e.inner_expression))

\* typing_visit_token_expression, once t is known
typing_visit_token_expression_t(s, e, t) ==
    IF t.r # "ok" THEN WithNode(t, e) ELSE POk(s, [e EXCEPT !.type_ = t.n])

typing_visit_token_expression(s, e) ==
    CASE e.token.type = "CHARACTER" -> POk(s, [e EXCEPT !.type_ = MkType("char")])
      [] e.token.type = "NUMBER" -> POk(s, [e EXCEPT !.type_ = MkType("base")])
      [] e.token.type = "STRING_CHARS" -> POk(s, [e EXCEPT !.type_ = MkType("string")])
      [] e.token.type = "IDENTIFIER" ->
            typing_visit_token_expression_t(s, e, get_identifier_type(s, e.token))
      [] e.token.type \in {"TRUE", "FALSE", "NULL"} ->
            POk(s, [e EXCEPT !.type_ = MkType("base")])
      [] OTHER -> PCrash(s, e)

Castable(type_) == type_.class \in {"CharacterType", "NumericType"}

\* typing_visit_type_cast_expression, once e1 is known
typing_visit_type_cast_expression_e1(e, i, e1) ==
    IF i.r # "ok" THEN WithNode(i, e1)
    ELSE IF Castable(get_expression_type(i.n)) /\ Castable(TokType(e.cast_to))
    THEN POk(i.s, [e1 EXCEPT !.type_ = TokType(e.cast_to)])
    ELSE PErr(i.s, e1, "cannot type cast")

\* typing_visit_type_cast_expression, once i is known
typing_visit_type_cast_expression_i(e, i) ==
    typing_visit_type_cast_expression_e1(e, i, [e EXCEPT !.expression = i.n])

typing_visit_type_cast_expression(s, e) ==
    typing_visit_type_cast_expression_i(e, typing_parse_expression(s, e.expression))

\* typing_visit_unary_expression, once inner_type is known
typing_visit_unary_expression_inner_type(e, i, e1, inner_type) ==
    IF i.r # "ok" THEN WithNode(i, e1)
    ELSE IF e.expression_type # "GROUPING" /\ inner_type.class # "NumericType"
    THEN PErr(i.s, e1, "expected numeric type for unary expression")
    ELSE POk(i.s, [e1 EXCEPT !.type_ = inner_type])

\* typing_visit_unary_expression, once e1 is known
typing_visit_unary_expression_e1(e, i, e1) ==
    typing_visit_unary_expression_inner_type(e, i, e1, get_expression_type(i.n))

\* typing_visit_unary_expression, once i is known
typing_visit_unary_expression_i(e, i) ==
    typing_visit_unary_expression_e1(e, i, [e EXCEPT !.expression = i.n])

typing_visit_unary_expression(s, e) ==
    typing_visit_unary_expression_i(e, typing_parse_expression(s, e.expression))

\* TypingPass.parse_expression: the dispatch on the class of the expression
typing_parse_expression(s, e) ==
    CASE e.k = "BinaryExpression" -> typing_visit_binary_expression(s, e)
      [] e.k = "CallExpression" -> typing_visit_call_expression(s, e)
      [] e.k = "IdentifierExpression" -> typing_visit_identifier_expression(s, e)
      [] e.k = "StringEqualExpression" -> typing_visit_string_equal_expression(s, e)
      [] e.k = "StringExpression" -> typing_visit_string_expression(s, e)
      [] e.k = "ThisExpression" -> typing_visit_this_expression(s, e)
      [] e.k = "TokenExpression" -> typing_visit_token_expression(s, e)
      [] e.k = "TypeCastExpression" -> typing_visit_type_cast_expression(s, e)
      [] e.k = "UnaryExpression" -> typing_visit_unary_expression(s, e)
      [] OTHER -> PCrash(s, e)

----------------------------------------------------------------------------
(* The typing pass: statements (visitors/typing_pass_statement_visitor.py, *)
(* the same code as ast_checks/typing_pass.py 178-364)                     *)

RECURSIVE typing_parse_statement(_, _)
RECURSIVE typing_parse_statements(_, _)
RECURSIVE typing_else_if_blocks(_, _)
RECURSIVE typing_add_arguments(_, _, _, _)

\* a token of the standard library, at the dummy location
StdlibToken(type, value) ==
    [type |-> type, value |-> value, num |-> 0, start |-> 0, length |-> 0]

\* what a scope keeps of a FunctionStatement: the parts a call reads
FunctionEntry(stmt) == [return_type |-> stmt.return_type, arguments |-> stmt.arguments]

\* read_file and write_file: bool (string filename, list[char] list)
StdlibFunction(value) ==
    add_argument(
        add_argument(
            FunctionStatement(StdlibToken("TYPE", "bool"), StdlibToken("IDENTIFIER", value),
                              "None"),
            StdlibToken("TYPE", "string"), StdlibToken("IDENTIFIER", "filename")),
        StdlibToken("TYPE", "list[char]"), StdlibToken("IDENTIFIER", "list"))

\* add_stdlib_function, once a is known
add_stdlib_function_a(value, function, a) ==
    IF a.r # "ok" THEN a
    ELSE POk([a.s EXCEPT !.scope_wrapper =
                 scope_add_function(@, value, FunctionEntry(function))], NoneNode)

\* add_stdlib_function, once function is known
add_stdlib_function_function(s, value, function) ==
    add_stdlib_function_a(value, function,
             add_identifier(s, function.name, TokType(function.return_type)))

\* add_stdlib_functions: one function
add_stdlib_function(s, value) ==
    add_stdlib_function_function(s, value, StdlibFunction(value))

\* add_stdlib_functions, once r is known
add_stdlib_functions_r(r) ==
    IF r.r # "ok" THEN r ELSE add_stdlib_function(r.s, "write_file")

add_stdlib_functions(s) ==
    add_stdlib_functions_r(add_stdlib_function(s, "read_file"))

\* typing_parse_statements, once rest is known
typing_parse_statements_rest(r, rest) ==
    WithNode(rest, <<r.n>> \o rest.n)

\* typing_parse_statements, once r is known
typing_parse_statements_r(statements, r) ==
    IF r.r # "ok" THEN WithNode(r, <<r.n>> \o Tail(statements))
    ELSE typing_parse_statements_rest(r, typing_parse_statements(r.s, Tail(statements)))

\* n is the list of the annotated statements
typing_parse_statements(s, statements) ==
    IF statements = <<>> THEN POk(s, <<>>)
    ELSE typing_parse_statements_r(statements, typing_parse_statement(s, Head(statements)))

\* typing_visit_assignment_statement, once v is known
typing_visit_assignment_statement_v(stmt, e, v) ==
    IF e.r # "ok" THEN WithNode(e, [stmt EXCEPT !.expression = e.n])
    ELSE IF v.r # "ok" THEN WithNode(v, [stmt EXCEPT !.expression = e.n, !.value = v.n])
    ELSE IF ~check_expression_types(e.n, v.n).ok
    THEN PErr(v.s, [stmt EXCEPT !.expression = e.n, !.value = v.n],
              "invalid types provided")
    ELSE POk(v.s, [stmt EXCEPT !.expression = e.n, !.value = v.n])

\* typing_visit_assignment_statement, once e is known
typing_visit_assignment_statement_e(stmt, e) ==
    typing_visit_assignment_statement_v(stmt, e, typing_parse_expression(e.s, stmt.value))

typing_visit_assignment_statement(s, stmt) ==
    typing_visit_assignment_statement_e(stmt, typing_parse_expression(s, stmt.expression))

\* typing_class_body, once s3 is known
typing_class_body_s3(stmt, lib, v, c, d, f, s1, s2, s3) ==
    IF lib.r # "ok" THEN WithNode(lib, stmt)
    ELSE IF v.r # "ok" THEN WithNode(v, s1)
    ELSE IF c.r # "ok" THEN WithNode(c, s2)
    ELSE IF d.r # "ok" THEN WithNode(d, s3)
    ELSE WithNode(f, [s3 EXCEPT !.functions = f.n])

\* typing_class_body, once s2 is known
typing_class_body_s2(stmt, lib, v, c, d, f, s1, s2) ==
    typing_class_body_s3(stmt, lib, v, c, d, f, s1, s2, [s2 EXCEPT !.destructor = d.n])

\* typing_class_body, once s1 is known
typing_class_body_s1(stmt, lib, v, c, d, f, s1) ==
    typing_class_body_s2(stmt, lib, v, c, d, f, s1, [s1 EXCEPT !.constructor = c.n])

\* typing_class_body, once f is known
typing_class_body_f(stmt, lib, v, c, d, f) ==
    typing_class_body_s1(stmt, lib, v, c, d, f, [stmt EXCEPT !.variables = v.n])

\* typing_class_body, once d is known
typing_class_body_d(stmt, lib, v, c, d) ==
    typing_class_body_f(stmt, lib, v, c, d, typing_parse_statements(d.s, stmt.functions))

\* typing_class_body, once c is known
typing_class_body_c(stmt, lib, v, c) ==
    typing_class_body_d(stmt, lib, v, c, typing_parse_statement(c.s, stmt.destructor))

\* typing_class_body, once v is known
typing_class_body_v(stmt, lib, v) ==
    typing_class_body_c(stmt, lib, v, typing_parse_statement(v.s, stmt.constructor))

\* typing_class_body, once lib is known
typing_class_body_lib(stmt, lib) ==
    typing_class_body_v(stmt, lib, typing_parse_statements(lib.s, stmt.variables))

\* visit_class_statement: the body of the with statement
typing_class_body(s, stmt) ==
    typing_class_body_lib(stmt, add_stdlib_functions([s EXCEPT !.live_class = stmt.class_type]))

typing_visit_class_statement(s, stmt) ==
    IF ~clean_scope_allowed(s) THEN clean_scope_exit(PCrash(s, stmt))
    ELSE clean_scope_exit(typing_class_body(clean_scope_enter(s), stmt))

\* typing_visit_for_loop_statement, once s3 is known
typing_visit_for_loop_statement_s3(i, c, l, b, s1, s2, s3) ==
    new_scope_exit(
        IF i.r # "ok" THEN WithNode(i, s1)
        ELSE IF c.r # "ok" THEN WithNode(c, s2)
        ELSE IF l.r # "ok" THEN WithNode(l, s3)
        ELSE WithNode(b, [s3 EXCEPT !.statements = b.n]))

\* typing_visit_for_loop_statement, once s2 is known
typing_visit_for_loop_statement_s2(i, c, l, b, s1, s2) ==
    typing_visit_for_loop_statement_s3(i, c, l, b, s1, s2, [s2 EXCEPT !.loop = l.n])

\* typing_visit_for_loop_statement, once s1 is known
typing_visit_for_loop_statement_s1(i, c, l, b, s1) ==
    typing_visit_for_loop_statement_s2(i, c, l, b, s1, [s1 EXCEPT !.check = c.n])

\* typing_visit_for_loop_statement, once b is known
typing_visit_for_loop_statement_b(stmt, i, c, l, b) ==
    typing_visit_for_loop_statement_s1(i, c, l, b, [stmt EXCEPT !.init = i.n])

\* typing_visit_for_loop_statement, once l is known
typing_visit_for_loop_statement_l(stmt, i, c, l) ==
    typing_visit_for_loop_statement_b(stmt, i, c, l, typing_parse_statements(l.s, stmt.statements))

\* typing_visit_for_loop_statement, once c is known
typing_visit_for_loop_statement_c(stmt, i, c) ==
    typing_visit_for_loop_statement_l(stmt, i, c, typing_parse_statement(c.s, stmt.loop))

\* typing_visit_for_loop_statement, once i is known
typing_visit_for_loop_statement_i(stmt, i) ==
    typing_visit_for_loop_statement_c(stmt, i,
             IF IsNone(stmt.check) THEN POk(i.s, NoneNode)
             ELSE typing_parse_expression(i.s, stmt.check))

typing_visit_for_loop_statement(s, stmt) ==
    typing_visit_for_loop_statement_i(stmt, typing_parse_statement(new_scope_enter(s), stmt.init))

\* typing_add_arguments, once a is known
typing_add_arguments_a(arguments, done, by_reference, argument, a) ==
    IF a.r # "ok" THEN WithNode(a, done \o <<argument>> \o Tail(arguments))
    ELSE typing_add_arguments(a.s, Tail(arguments), Append(done, argument),
                              by_reference)

\* typing_add_arguments, once argument is known
typing_add_arguments_argument(s, arguments, done, by_reference, argument) ==
    typing_add_arguments_a(arguments, done, by_reference, argument,
                  add_identifier(s, argument.name, argument.type_))

\* the loop over the arguments of a function (101-105) or of a lifecycle
\* statement (141-142): by_reference says whether is_reference is set;
\* n is the list of arguments
typing_add_arguments(s, arguments, done, by_reference) ==
    IF arguments = <<>> THEN POk(s, done)
    ELSE typing_add_arguments_argument(s, arguments, done, by_reference,
                         IF by_reference
                         THEN [Head(arguments) EXCEPT !.type_.is_reference = TRUE]
                         ELSE Head(arguments))

\* typing_function_body, once out is known
typing_function_body_out(out) ==
    [out EXCEPT !.s.function_stack = Front(@)]

\* typing_function_body, once b is known
typing_function_body_b(a, s1, b) ==
    typing_function_body_out(
               IF a.r # "ok" THEN WithNode(a, s1)
               ELSE WithNode(b, [s1 EXCEPT !.statements = b.n]))

\* typing_function_body, once s1 is known
typing_function_body_s1(stmt, a, s1) ==
    typing_function_body_b(a, s1, typing_parse_statements(a.s, stmt.statements))

\* typing_function_body, once a is known
typing_function_body_a(stmt, a) ==
    typing_function_body_s1(stmt, a, [stmt EXCEPT !.arguments = a.n])

\* typing_function_body, once pushed is known
typing_function_body_pushed(stmt, by_reference, pushed) ==
    typing_function_body_a(stmt, typing_add_arguments(pushed, stmt.arguments, <<>>, by_reference))

\* the try statement of visit_function_statement and visit_lifecycle_statement
typing_function_body(s, stmt, return_type, by_reference) ==
    typing_function_body_pushed(stmt, by_reference,
                  [s EXCEPT !.function_stack = Append(@, return_type)])

\* typing_visit_function_statement, once added is known
typing_visit_function_statement_added(stmt, return_type, a, added) ==
    IF a.r # "ok" THEN WithNode(a, stmt)
    ELSE new_scope_exit(
             typing_function_body(new_scope_enter(added), stmt, return_type, TRUE))

\* typing_visit_function_statement, once a is known
typing_visit_function_statement_a(stmt, return_type, a) ==
    typing_visit_function_statement_added(stmt, return_type, a,
                 [a.s EXCEPT !.scope_wrapper =
                     scope_add_function(@, stmt.name.value, FunctionEntry(stmt))])

\* typing_visit_function_statement, once return_type is known
typing_visit_function_statement_return_type(s, stmt, return_type) ==
    typing_visit_function_statement_a(stmt, return_type, add_identifier(s, stmt.name, return_type))

\* visit_function_statement without the finally clause
typing_visit_function_statement_leaking(s, stmt) ==
    IF typing_visit_function_statement_return_type(s, stmt, TokType(stmt.return_type)).r = "ok"
    THEN typing_visit_function_statement_return_type(s, stmt, TokType(stmt.return_type))
    ELSE [typing_visit_function_statement_return_type(s, stmt, TokType(stmt.return_type))
              EXCEPT !.s.function_stack = Append(@, TokType(stmt.return_type))]

typing_visit_function_statement(s, stmt) ==
    typing_visit_function_statement_return_type(s, stmt, TokType(stmt.return_type))

typing_visit_lifecycle_statement(s, stmt) ==
    new_scope_exit(typing_function_body(new_scope_enter(s), stmt, MkType("void"), FALSE))

\* typing_block, once b is known
typing_block_b(statements, c, b) ==
    new_scope_exit(
        IF c.r # "ok" THEN WithNode(c, [expression |-> c.n, statements |-> statements])
        ELSE WithNode(b, [expression |-> c.n, statements |-> b.n]))

\* typing_block, once c is known
typing_block_c(statements, c) ==
    typing_block_b(statements, c, typing_parse_statements(c.s, statements))

\* an expression and a block of statements in a new scope; n is the pair
typing_block(s, e, statements) ==
    typing_block_c(statements, typing_parse_expression(new_scope_enter(s), e))

\* typing_else_if_blocks, once rest is known
typing_else_if_blocks_rest(b, rest) ==
    WithNode(rest, <<b.n>> \o rest.n)

\* typing_else_if_blocks, once b is known
typing_else_if_blocks_b(blocks, b) ==
    IF b.r # "ok" THEN WithNode(b, <<b.n>> \o Tail(blocks))
    ELSE typing_else_if_blocks_rest(b, typing_else_if_blocks(b.s, Tail(blocks)))

\* n is the list of the annotated blocks
typing_else_if_blocks(s, blocks) ==
    IF blocks = <<>> THEN POk(s, <<>>)
    ELSE typing_else_if_blocks_b(blocks,
                  typing_block(s, Head(blocks).expression, Head(blocks).statements))

\* typing_visit_if_statement, once el is known
typing_visit_if_statement_el(stmt, b, s1, ei, s2, el) ==
    IF b.r # "ok" THEN WithNode(b, s1)
    ELSE IF ei.r # "ok" THEN WithNode(ei, s2)
    ELSE IF stmt.else_statements = <<>> THEN WithNode(ei, s2)
    ELSE WithNode(el, [s2 EXCEPT !.else_statements = el.n])

\* typing_visit_if_statement, once s2 is known
typing_visit_if_statement_s2(stmt, b, s1, ei, s2) ==
    typing_visit_if_statement_el(stmt, b, s1, ei, s2,
              new_scope_exit(typing_parse_statements(new_scope_enter(ei.s),
                                                     stmt.else_statements)))

\* typing_visit_if_statement, once ei is known
typing_visit_if_statement_ei(stmt, b, s1, ei) ==
    typing_visit_if_statement_s2(stmt, b, s1, ei, [s1 EXCEPT !.else_if_statement_blocks = ei.n])

\* typing_visit_if_statement, once s1 is known
typing_visit_if_statement_s1(stmt, b, s1) ==
    typing_visit_if_statement_ei(stmt, b, s1,
              typing_else_if_blocks(b.s, stmt.else_if_statement_blocks))

\* typing_visit_if_statement, once b is known
typing_visit_if_statement_b(stmt, b) ==
    typing_visit_if_statement_s1(stmt, b,
              [stmt EXCEPT !.expression = b.n.expression, !.statements = b.n.statements])

typing_visit_if_statement(s, stmt) ==
    typing_visit_if_statement_b(stmt, typing_block(s, stmt.expression, stmt.statements))

\* typing_visit_return_statement_any_value, once v is known
typing_visit_return_statement_any_value_v(stmt, v) ==
    WithNode(v, [stmt EXCEPT !.value = v.n])

\* visit_return_statement without the check of the value against the
\* declared return type
typing_visit_return_statement_any_value(s, stmt) ==
    IF s.function_stack = <<>> THEN PCrash(s, stmt)
    ELSE IF non_void(Last(s.function_stack)) /\ IsNone(stmt.value)
    THEN PErr(s, stmt, "non-void function expects a return value!")
    ELSE IF ~non_void(Last(s.function_stack)) /\ ~IsNone(stmt.value)
    THEN PErr(s, stmt, "void function expects no return value")
    ELSE IF IsNone(stmt.value) THEN POk(s, stmt)
    ELSE typing_visit_return_statement_any_value_v(stmt, typing_parse_expression(s, stmt.value))

\* typing_visit_return_statement, once s1 is known
typing_visit_return_statement_s1(s, stmt, function_return_type, v, s1) ==
    IF non_void(function_return_type) /\ IsNone(stmt.value)
    THEN PErr(s, stmt, "non-void function expects a return value!")
    ELSE IF ~non_void(function_return_type) /\ ~IsNone(stmt.value)
    THEN PErr(s, stmt, "void function expects no return value")
    ELSE IF IsNone(stmt.value) THEN POk(s, stmt)
    ELSE IF v.r # "ok" THEN WithNode(v, s1)
    ELSE IF ~check_types(function_return_type, get_expression_type(v.n)).ok
    THEN PErr(v.s, s1, "expected return value of type")
    ELSE POk(v.s, s1)

\* typing_visit_return_statement, once v is known
typing_visit_return_statement_v(s, stmt, function_return_type, v) ==
    typing_visit_return_statement_s1(s, stmt, function_return_type, v, [stmt EXCEPT !.value = v.n])

\* typing_visit_return_statement, once function_return_type is known
typing_visit_return_statement_function_return_type(s, stmt, function_return_type) ==
    typing_visit_return_statement_v(s, stmt, function_return_type,
             typing_parse_expression(s, stmt.value))

typing_visit_return_statement(s, stmt) ==
    IF s.function_stack = <<>> THEN PCrash(s, stmt)
    ELSE
    typing_visit_return_statement_function_return_type(s, stmt, Last(s.function_stack))

\* typing_visit_var_decl_statement, once s1 is known
typing_visit_var_decl_statement_s1(stmt, a, requested_type, v, s1) ==
    IF a.r # "ok" THEN WithNode(a, stmt)
    ELSE IF IsNone(stmt.initial_value) THEN POk(a.s, stmt)
    ELSE IF requested_type.r # "ok" THEN WithNode(requested_type, stmt)
    ELSE IF v.r # "ok" THEN WithNode(v, s1)
    ELSE IF ~check_types(requested_type.n, get_expression_type(v.n)).ok
    THEN PErr(v.s, s1, "invalid types provided")
    ELSE POk(v.s, s1)

\* typing_visit_var_decl_statement, once v is known
typing_visit_var_decl_statement_v(stmt, a, requested_type, v) ==
    typing_visit_var_decl_statement_s1(stmt, a, requested_type, v,
              [stmt EXCEPT !.initial_value = v.n])

\* typing_visit_var_decl_statement, once requested_type is known
typing_visit_var_decl_statement_requested_type(stmt, a, requested_type) ==
    typing_visit_var_decl_statement_v(stmt, a, requested_type,
             typing_parse_expression(a.s, stmt.initial_value))

\* typing_visit_var_decl_statement, once a is known
typing_visit_var_decl_statement_a(stmt, a) ==
    typing_visit_var_decl_statement_requested_type(stmt, a, get_identifier_type(a.s, stmt.name))

typing_visit_var_decl_statement(s, stmt) ==
    typing_visit_var_decl_statement_a(stmt, add_identifier(s, stmt.name, stmt.type_))

\* typing_visit_statement, once e is known
typing_visit_statement_e(stmt, e) ==
    WithNode(e, [stmt EXCEPT !.expression = e.n])

\* typing_visit_statement, once e is known
typing_visit_statement_e2(stmt, e) ==
    WithNode(e, [stmt EXCEPT !.value = e.n])

\* the visit_... methods of TypingPassStatementVisitor
typing_visit_statement(s, stmt) ==
    CASE stmt.k = "AssignmentStatement" -> typing_visit_assignment_statement(s, stmt)
      [] stmt.k \in {"BreakStatement", "BreakallStatement", "ContinueStatement"} ->
            POk(s, stmt)
      [] stmt.k = "ClassStatement" -> typing_visit_class_statement(s, stmt)
      [] stmt.k = "ExpressionStatement" ->
            typing_visit_statement_e(stmt, typing_parse_expression(s, stmt.expression))
      [] stmt.k = "ForLoopStatement" -> typing_visit_for_loop_statement(s, stmt)
      [] stmt.k = "FunctionStatement" -> typing_visit_function_statement(s, stmt)
      [] stmt.k = "IfStatement" -> typing_visit_if_statement(s, stmt)
      [] stmt.k = "LifecycleStatement" -> typing_visit_lifecycle_statement(s, stmt)
      [] stmt.k = "ListStatement" ->
            WithNode(add_identifier(s, stmt.name, stmt.list_type), stmt)
      [] stmt.k = "PrintStatement" ->
            typing_visit_statement_e2(stmt, typing_parse_expression(s, stmt.value))
      [] stmt.k = "ReturnStatement" -> typing_visit_return_statement(s, stmt)
      [] stmt.k = "VarDeclStatement" -> typing_visit_var_decl_statement(s, stmt)
      [] OTHER -> PCrash(s, stmt)

\* TypingPass.parse_statement
typing_parse_statement(s, stmt) ==
    IF IsNone(stmt) THEN POk(s, stmt) ELSE catch(s, typing_visit_statement(s, stmt))

----------------------------------------------------------------------------
(* verify_types (visitors/verify_types_expression_visitor.py,              *)
(* visitors/verify_types_statement_visitor.py): TRUE when no assertion     *)
(* fails                                                                   *)

RECURSIVE verify_expression(_)
RECURSIVE verify_expressions(_)
RECURSIVE verify_statement(_)
RECURSIVE verify_statements(_)
RECURSIVE verify_blocks(_)

\* VerifyTypesExpressionVisitor.verify
verify(e) == e.type_ # UnknownType

verify_expressions(expressions) ==
    IF expressions = <<>> THEN TRUE
    ELSE /\ Head(expressions).k = "Token" \/ verify_expression(Head(expressions))
         /\ verify_expressions(Tail(expressions))

verify_expression(e) ==
    /\ verify(e)
    /\ CASE e.k = "BinaryExpression" ->
                verify_expression(e.left) /\ verify_expression(e.right)
         [] e.k = "CallExpression" ->
                verify_expression(e.expression) /\ verify_expressions(e.arguments)
         [] e.k \in {"IdentifierExpression", "ThisExpression"} ->
                IsNone(e.inner_expression) \/ verify_expression(e.inner_expression)
         [] e.k = "StringEqualExpression" -> verify_expression(e.inner)
         [] e.k = "StringExpression" -> verify_expressions(e.string_elements)
         [] e.k = "TokenExpression" -> TRUE
         [] e.k \in {"TypeCastExpression", "UnaryExpression"} ->
                verify_expression(e.expression)
         [] OTHER -> FALSE

verify_statements(statements) ==
    IF statements = <<>> THEN TRUE
    ELSE verify_statement(Head(statements)) /\ verify_statements(Tail(statements))

verify_blocks(blocks) ==
    IF blocks = <<>> THEN TRUE
    ELSE /\ verify_expression(Head(blocks).expression)
         /\ verify_statements(Head(blocks).statements)
         /\ verify_blocks(Tail(blocks))

verify_statement(stmt) ==
    CASE stmt.k = "AssignmentStatement" ->
            verify_expression(stmt.expression) /\ verify_expression(stmt.value)
      [] stmt.k \in {"BreakStatement", "BreakallStatement", "ContinueStatement",
                     "ListStatement"} -> TRUE
      [] stmt.k = "ClassStatement" ->
            /\ IsNone(stmt.constructor) \/ verify_statement(stmt.constructor)
            /\ IsNone(stmt.destructor) \/ verify_statement(stmt.destructor)
            /\ verify_statements(stmt.functions)
            /\ verify_statements(stmt.variables)
      [] stmt.k = "ExpressionStatement" -> verify_expression(stmt.expression)
      [] stmt.k = "ForLoopStatement" ->
            /\ IsNone(stmt.check) \/ verify_expression(stmt.check)
            /\ IsNone(stmt.init) \/ verify_statement(stmt.init)
            /\ IsNone(stmt.loop) \/ verify_statement(stmt.loop)
            /\ verify_statements(stmt.statements)
      [] stmt.k \in {"FunctionStatement", "LifecycleStatement"} ->
            verify_statements(stmt.statements)
      [] stmt.k = "IfStatement" ->
            /\ verify_blocks(stmt.else_if_statement_blocks)
            /\ verify_statements(stmt.else_statements)
            /\ verify_expression(stmt.expression)
            /\ verify_statements(stmt.statements)
      [] stmt.k = "PrintStatement" -> verify_expression(stmt.value)
      [] stmt.k = "ReturnStatement" -> IsNone(stmt.value) \/ verify_expression(stmt.value)
      [] stmt.k = "VarDeclStatement" ->
            IsNone(stmt.initial_value) \/ verify_expression(stmt.initial_value)
      [] OTHER -> FALSE

----------------------------------------------------------------------------
(* AstCheck.run (ast_checks/ast_check.py): the scoping pass, the typing    *)
(* pass and the verification, each run() one statement at a time           *)

\* TypingPass.__init__: the standard library is in the global scope
InitTypingPass == add_stdlib_functions(InitPass).s

\* the assertions at the end of run()
run_assertions(s) == is_global_scope(s.scope_wrapper) /\ s.stash = <<>>

\* ScopingStep, once r is known
ScopingStep_r(r) ==
    /\ pass' = [r.s EXCEPT !.index = @ + 1]
    /\ phase' = IF r.r = "ok" THEN phase ELSE "crashed"

\* one iteration of the loop of PassBase.run
ScopingStep ==
    /\ phase = "scoping"
    /\ pass.index <= Len(ast)
    /\ ScopingStep_r(scoping_parse_statement(pass, ast[pass.index]))
    /\ UNCHANGED <<source, tokens, parser, ast, errors, registry, output>>

\* a scoping pass that hands over to the typing pass whatever it recorded
ScopingEnd_ignoring_errors ==
    /\ phase = "scoping"
    /\ pass.index > Len(ast)
    /\ phase' = "typing"
    /\ pass' = InitTypingPass
    /\ UNCHANGED <<source, tokens, parser, ast, errors, registry, output>>

\* the end of PassBase.run: the assertions, then exit(1) when errors were found
ScopingEnd ==
    /\ phase = "scoping"
    /\ pass.index > Len(ast)
    /\ IF ~run_assertions(pass) THEN phase' = "crashed" /\ pass' = pass
       ELSE IF pass.errors # <<>> THEN phase' = "exit1" /\ pass' = pass
       ELSE phase' = "typing" /\ pass' = InitTypingPass
    /\ UNCHANGED <<source, tokens, parser, ast, errors, registry, output>>

\* TypingStep, once r is known
TypingStep_r(r) ==
    /\ pass' = [r.s EXCEPT !.index = @ + 1]
    /\ ast' = [ast EXCEPT ![pass.index] = r.n]
    /\ phase' = IF r.r = "ok" THEN phase ELSE "crashed"

\* one iteration of the loop of TypingPass.run
TypingStep ==
    /\ phase = "typing"
    /\ pass.index <= Len(ast)
    /\ TypingStep_r(typing_parse_statement(pass, ast[pass.index]))
    /\ UNCHANGED <<source, tokens, parser, errors, registry, output>>

\* the end of TypingPass.run
TypingEnd ==
    /\ phase = "typing"
    /\ pass.index > Len(ast)
    /\ phase' = IF ~run_assertions(pass) THEN "crashed"
                ELSE IF pass.errors # <<>> THEN "exit1"
                ELSE "verify"
    /\ UNCHANGED <<source, tokens, parser, ast, errors, pass, registry, output>>

\* TypingPass.verify_types
VerifyTypes ==
    /\ phase = "verify"
    /\ phase' = IF verify_statements(ast) THEN "done" ELSE "crashed"
    /\ UNCHANGED <<source, tokens, parser, ast, errors, pass, registry, output>>

----------------------------------------------------------------------------
(* Emission (code_generator.py and the c_code methods of expressions/*.py  *)
(* and statements/*.py).  C text is a sequence of pieces, the strings the  *)
(* f-strings of the source join; the empty string is the empty sequence.   *)
(* A failed assertion leaves the piece AssertionError in the text.         *)
(* CallExpression.consume sets call_consumed on the call below an          *)
(* identifier chain; no c_code reads the flag of a call outside the chain  *)
(* it belongs to, so c_code hands the chain with the flag set to the       *)
(* methods called after inner_function_call.                               *)

RECURSIVE expression_c_code(_)
RECURSIVE expressions_c_code(_)
RECURSIVE statement_c_code(_)
RECURSIVE statements_c_code(_)
RECURSIVE inner_function_call(_)
RECURSIVE after_inner_function_call(_)
RECURSIVE get_arguments(_)
RECURSIVE Join(_)
RECURSIVE source_text_from(_, _)
RECURSIVE string_format(_, _)
RECURSIVE string_arguments(_)
RECURSIVE else_if_c_code(_)
RECURSIVE arguments_c_code(_)

AssertionError == <<"AssertionError">>

\* ", ".join(parts)
Join(parts) ==
    IF parts = <<>> THEN <<>>
    ELSE IF Len(parts) = 1 THEN parts[1]
    ELSE parts[1] \o <<", ">> \o Join(Tail(parts))

\* code.removesuffix(";")
removesuffix(code) ==
    IF code # <<>> /\ Last(code) = ";" THEN Front(code) ELSE code

\* ListType.inner_type, as its keyword
inner_type(list_type) ==
    CASE list_type = "list[char]" -> "char"
      [] list_type = "list[u8]" -> "u8"
      [] OTHER -> ""

\* Type.c_code and str(TypeToken): the name of the type in C
type_c_code(type_) ==
    IF type_.class = "ListType" THEN <<"list_", inner_type(type_.keyword)>>
    ELSE <<type_.keyword>>

\* NumericType.num_bits (types.py 33-44)
num_bits(keyword) ==
    CASE keyword = "u1" -> 1
      [] keyword \in {"u8", "s8"} -> 8
      [] keyword \in {"u16", "s16"} -> 16
      [] keyword \in {"u32", "s32", "f32"} -> 32
      [] OTHER -> 64

\* NumericType.numeric_type_type (types.py 33-44)
numeric_type_type(keyword) ==
    CASE keyword \in {"u1", "u8", "u16", "u32", "u64"} -> "UNSIGNED"
      [] keyword \in {"f32", "f64"} -> "FLOATING_POINT"
      [] OTHER -> "SIGNED"

\* get_type_format_string, once type_ is known
get_type_format_string_type_(type_) ==
    IF type_.class = "CharacterType" THEN <<"%c">>
    ELSE IF type_.class # "NumericType" THEN AssertionError
    ELSE <<"%">> \o (IF num_bits(type_.keyword) > 32 THEN <<"l">> ELSE <<>>)
           \o (CASE numeric_type_type(type_.keyword) = "SIGNED" -> <<"d">>
                 [] numeric_type_type(type_.keyword) = "UNSIGNED" -> <<"u">>
                 [] OTHER -> <<"f">>)

\* a conversion that prints every value as a signed int
get_type_format_string_d(e) == <<"%", "d">>

\* Utils.get_type_format_string
get_type_format_string(e) == get_type_format_string_type_(get_expression_type(e))

\* the text of the file from offset start up to offset end: the words of
\* the tokens that lie in it
source_text_from(i, loc) ==
    IF i > Len(tokens) THEN <<>>
    ELSE (IF loc.start <= tokens[i].start /\ tokens[i].start + tokens[i].length <= LocEnd(loc)
          THEN <<tokens[i].value>> ELSE <<>>) \o source_text_from(i + 1, loc)

\* Utils.get_source_text
get_source_text(loc) ==
    IF LocEnd(loc) > TokenStride * Len(tokens) THEN AssertionError
    ELSE source_text_from(1, loc)

\* TokenExpression.c_code
token_expression_c_code(e) ==
    CASE e.token.type = "CHARACTER" -> <<"'", e.token.value, "'">>
      [] e.token.type = "STRING_CHARS" -> <<"\"", e.token.value, "\"">>
      [] e.token.type = "NULL" -> <<"0">>
      [] OTHER -> <<e.token.value>>

\* IdentifierExpression.inner_function_call: the name of the call at the end
\* of the chain, NoneNode when there is none
inner_function_call(e) ==
    IF IsNone(e.inner_expression) THEN NoneNode
    ELSE IF e.inner_expression.k = "IdentifierExpression"
    THEN inner_function_call(e.inner_expression)
    ELSE IF e.inner_expression.k = "CallExpression"
    THEN e.inner_expression.expression.identifier_token
    ELSE NoneNode

\* CallExpression.consume: the assignment
call_consume(call) == [call EXCEPT !.call_consumed = TRUE]

\* the chain after inner_function_call: the call at its end is consumed
after_inner_function_call(e) ==
    IF IsNone(e.inner_expression) THEN e
    ELSE IF e.inner_expression.k = "IdentifierExpression"
    THEN [e EXCEPT !.inner_expression = after_inner_function_call(@)]
    ELSE IF e.inner_expression.k = "CallExpression"
    THEN [e EXCEPT !.inner_expression = call_consume(@)]
    ELSE e

\* IdentifierExpression.get_arguments
get_arguments(e) ==
    IF IsNone(e.inner_expression) THEN <<AssertionError>>
    ELSE IF e.inner_expression.k = "IdentifierExpression" THEN get_arguments(e.inner_expression)
    ELSE IF e.inner_expression.k # "CallExpression" THEN <<AssertionError>>
    ELSE expressions_c_code(e.inner_expression.arguments)

\* IdentifierExpression._join
join(e) == IF e.type_.is_reference THEN "->" ELSE "."

\* IdentifierExpression.dereference
dereference(e) == IF e.type_.is_reference THEN <<>> ELSE <<"&">>

\* IdentifierExpression._inner_c_code
inner_c_code(e) ==
    IF ~IsNone(e.inner_expression) /\ expression_c_code(e.inner_expression) # <<>>
    THEN <<e.identifier_token.value, join(e)>> \o expression_c_code(e.inner_expression)
    ELSE <<e.identifier_token.value>>

\* IdentifierExpression.c_code: the function call of the outermost
\* identifier (86-88, 94-96); inner_function_call has run
method_call(full_name, e) ==
    full_name \o <<"(">>
        \o Join(<<dereference(e) \o inner_c_code(after_inner_function_call(e))>>
                    \o get_arguments(e))
        \o <<")">>

\* IdentifierExpression.c_code
identifier_expression_c_code(e) ==
    IF e.class_type # "None" /\ "k" \notin DOMAIN inner_function_call(e)
    THEN method_call(<<e.class_type, "_", inner_function_call(e).value>>, e)
    ELSE IF e.list_type # "None"
    THEN IF "k" \notin DOMAIN inner_function_call(e)
         THEN method_call(<<"list_", inner_type(e.list_type), "_",
                            inner_function_call(e).value>>, e)
         ELSE dereference(e) \o inner_c_code(e)
    ELSE inner_c_code(e)

\* CallExpression.c_code
call_expression_c_code(e) ==
    IF e.call_consumed THEN <<>>
    ELSE (IF e.class_type # "None" THEN <<e.class_type, "_">> ELSE <<>>)
           \o <<e.expression.identifier_token.value, "(">>
           \o Join((IF e.class_type # "None" THEN << <<"this">> >> ELSE <<>>)
                       \o expressions_c_code(e.arguments))
           \o <<")">>

\* UnaryExpression.c_code
unary_expression_c_code(e) ==
    CASE e.expression_type = "GROUPING" -> <<"(">> \o expression_c_code(e.expression) \o <<")">>
      [] e.expression_type = "NOT" -> <<"(!(">> \o expression_c_code(e.expression) \o <<"))">>
      [] e.expression_type = "MINUS" -> <<"(-(">> \o expression_c_code(e.expression) \o <<"))">>
      [] e.expression_type = "POST_DECREMENT" ->
            <<"((">> \o expression_c_code(e.expression) \o <<")--)">>
      [] e.expression_type = "POST_INCREMENT" ->
            <<"((">> \o expression_c_code(e.expression) \o <<")++)">>
      [] e.expression_type = "PRE_DECREMENT" ->
            <<"(--(">> \o expression_c_code(e.expression) \o <<"))">>
      [] e.expression_type = "PRE_INCREMENT" ->
            <<"(++(">> \o expression_c_code(e.expression) \o <<"))">>
      [] OTHER -> AssertionError

\* StringExpression.c_code: the format string of the elements (66-88)
string_format(elements, line_end) ==
    IF elements = <<>> THEN <<>>
    ELSE (CASE Head(elements).k = "StringEqualExpression" ->
                  <<"%s">> \o get_type_format_string(Head(elements).inner)
            [] Head(elements).k # "Token" -> get_type_format_string(Head(elements))
            [] Head(elements).token.type = "STRING_START" -> <<"\"">>
            [] Head(elements).token.type = "STRING_END" ->
                  (IF line_end = "" THEN <<>> ELSE <<line_end>>) \o <<"\"">>
            [] Head(elements).token.type = "STRING_CHARS" -> <<Head(elements).token.value>>
            [] OTHER -> <<>>)
           \o string_format(Tail(elements), line_end)

\* StringExpression.c_code: the arguments of the elements (66-88)
string_arguments(elements) ==
    IF elements = <<>> THEN <<>>
    ELSE (CASE Head(elements).k = "StringEqualExpression" ->
                  << <<"\"">> \o get_source_text(Head(elements).source_location) \o <<"\"">>,
                     expression_c_code(Head(elements).inner) >>
            [] Head(elements).k # "Token" -> <<expression_c_code(Head(elements))>>
            [] OTHER -> <<>>)
           \o string_arguments(Tail(elements))

\* StringExpression.c_code, with the line_end the print statement has set
string_expression_c_code(e, line_end) ==
    Join(<<string_format(e.string_elements, line_end)>> \o string_arguments(e.string_elements))

\* Expression.c_code of every class of expression
expression_c_code(e) ==
    CASE e.k = "BinaryExpression" ->
            <<"(">> \o expression_c_code(e.left) \o <<" ", e.token.value, " ">>
                \o expression_c_code(e.right) \o <<")">>
      [] e.k = "CallExpression" -> call_expression_c_code(e)
      [] e.k = "IdentifierExpression" -> identifier_expression_c_code(e)
      [] e.k = "StringEqualExpression" -> expression_c_code(e.inner) \o <<e.token.value>>
      [] e.k = "StringExpression" -> string_expression_c_code(e, e.line_end)
      [] e.k = "ThisExpression" -> <<"this->">> \o expression_c_code(e.inner_expression)
      [] e.k = "TokenExpression" -> token_expression_c_code(e)
      [] e.k = "TypeCastExpression" ->
            <<"((">> \o type_c_code(TokType(e.cast_to)) \o <<")">>
                \o expression_c_code(e.expression) \o <<")">>
      [] e.k = "UnaryExpression" -> unary_expression_c_code(e)
      [] OTHER -> AssertionError

\* [argument.c_code() for argument in arguments]
expressions_c_code(expressions) ==
    IF expressions = <<>> THEN <<>>
    ELSE <<expression_c_code(Head(expressions))>> \o expressions_c_code(Tail(expressions))

\* code += f"{statement.c_code()}\n" for every statement
statements_c_code(statements) ==
    IF statements = <<>> THEN <<>>
    ELSE statement_c_code(Head(statements)) \o <<"\n">> \o statements_c_code(Tail(statements))

\* the type-name pairs of the arguments of a function
arguments_c_code(arguments) ==
    IF arguments = <<>> THEN <<>>
    ELSE << type_c_code(Head(arguments).type_) \o <<" ", Head(arguments).name.value>> >>
             \o arguments_c_code(Tail(arguments))

\* FunctionStatement._function_name
function_name(stmt) ==
    IF stmt.class_type # "None" THEN <<stmt.class_type, "_", stmt.name.value>>
    ELSE <<stmt.name.value>>

\* FunctionStatement._c_declaration_base
c_declaration_base(stmt) ==
    type_c_code(TokType(stmt.return_type)) \o <<" ">> \o function_name(stmt) \o <<"(">>
        \o Join((IF stmt.class_type # "None" THEN << <<stmt.class_type, "* this">> >> ELSE <<>>)
                    \o arguments_c_code(stmt.arguments))
        \o <<")">>

\* FunctionStatement.c_declaration
c_declaration(stmt) == c_declaration_base(stmt) \o <<";">>

\* FunctionStatement.c_code
function_statement_c_code(stmt) ==
    c_declaration_base(stmt) \o <<" {\n">> \o statements_c_code(stmt.statements) \o <<"}">>

\* LifecycleStatement.c_code
lifecycle_statement_c_code(stmt) ==
    <<"void ">> \o type_c_code(stmt.type_)
        \o <<IF stmt.statement_type = "CONSTRUCTOR" THEN "_constructor(" ELSE "_destructor(">>
        \o Join(<<type_c_code(stmt.type_) \o <<"* this">> >> \o arguments_c_code(stmt.arguments))
        \o <<"){">> \o statements_c_code(stmt.statements) \o <<"}">>

\* code += variable.c_code() for every variable, code += method.c_code() for
\* every method
RECURSIVE members_c_code(_)
members_c_code(statements) ==
    IF statements = <<>> THEN <<>>
    ELSE statement_c_code(Head(statements)) \o members_c_code(Tail(statements))

\* ClassStatement.c_code
class_statement_c_code(stmt) ==
    <<"typedef struct ", stmt.class_type, "_struct ", stmt.class_type, ";\n",
      "struct ", stmt.class_type, "_struct {\n">>
        \o members_c_code(stmt.variables) \o <<"};\n">>
        \o lifecycle_statement_c_code(
               IF IsNone(stmt.constructor)
               THEN LifecycleStatement("CONSTRUCTOR", MkType(stmt.class_type), stmt.source_location)
               ELSE stmt.constructor) \o <<"\n">>
        \o lifecycle_statement_c_code(
               IF IsNone(stmt.destructor)
               THEN LifecycleStatement("DESTRUCTOR", MkType(stmt.class_type), stmt.source_location)
               ELSE stmt.destructor) \o <<"\n">>
        \o members_c_code(stmt.functions)

\* ForLoopStatement.c_code
for_loop_statement_c_code(stmt) ==
    <<"for (">>
        \o (IF IsNone(stmt.init) THEN <<>> ELSE removesuffix(statement_c_code(stmt.init)))
        \o <<"; ">>
        \o (IF IsNone(stmt.check) THEN <<>> ELSE expression_c_code(stmt.check))
        \o <<"; ">>
        \o (IF IsNone(stmt.loop) THEN <<>> ELSE removesuffix(statement_c_code(stmt.loop)))
        \o <<") {\n">> \o statements_c_code(stmt.statements) \o <<"}">>
        \o (IF stmt.breakall_label = NoLabel THEN <<>>
            ELSE <<"\n", "breakall_", ToString(stmt.breakall_label), ":", ";">>)

\* IfStatement._construct_if_statement
construct_if_statement(e, statements) ==
    <<"if (">> \o expression_c_code(e) \o <<") {\n">> \o statements_c_code(statements) \o <<"}">>

\* IfStatement.c_code: the else-if blocks
else_if_c_code(blocks) ==
    IF blocks = <<>> THEN <<>>
    ELSE <<" else ">> \o construct_if_statement(Head(blocks).expression, Head(blocks).statements)
             \o else_if_c_code(Tail(blocks))

\* IfStatement.c_code
if_statement_c_code(stmt) ==
    construct_if_statement(stmt.expression, stmt.statements)
        \o else_if_c_code(stmt.else_if_statement_blocks)
        \o (IF stmt.has_else
            THEN <<" else {\n">> \o statements_c_code(stmt.else_statements) \o <<"}">>
            ELSE <<>>)

\* PrintStatement.c_code
print_statement_c_code(stmt) ==
    IF stmt.value.k = "StringExpression"
    THEN <<"printf(">> \o string_expression_c_code(stmt.value, stmt.line_end) \o <<")", ";">>
    ELSE <<"printf(\"">> \o get_type_format_string(stmt.value)
             \o (IF stmt.line_end = "" THEN <<>> ELSE <<stmt.line_end>>)
             \o <<"\", ">> \o expression_c_code(stmt.value) \o <<")", ";">>

\* Statement.c_code of every class of statement
statement_c_code(stmt) ==
    CASE stmt.k = "AssignmentStatement" ->
            expression_c_code(stmt.expression) \o <<" ", stmt.assignment_token.value, " ">>
                \o expression_c_code(stmt.value) \o <<";">>
      [] stmt.k = "BreakStatement" -> <<"break", ";">>
      [] stmt.k = "BreakallStatement" ->
            <<"goto ", "breakall_", ToString(stmt.breakall_label), ";">>
      [] stmt.k = "ClassStatement" -> class_statement_c_code(stmt)
      [] stmt.k = "ContinueStatement" -> <<"continue", ";">>
      [] stmt.k = "ExpressionStatement" -> expression_c_code(stmt.expression) \o <<";">>
      [] stmt.k = "ForLoopStatement" -> for_loop_statement_c_code(stmt)
      [] stmt.k = "FunctionStatement" -> function_statement_c_code(stmt)
      [] stmt.k = "IfStatement" -> if_statement_c_code(stmt)
      [] stmt.k = "LifecycleStatement" -> lifecycle_statement_c_code(stmt)
      [] stmt.k = "ListStatement" ->
            type_c_code(stmt.list_type) \o <<" ", stmt.name.value, ";">>
                \o type_c_code(stmt.list_type) \o <<"_constructor(&", stmt.name.value, ")", ";">>
      [] stmt.k = "PrintStatement" -> print_statement_c_code(stmt)
      [] stmt.k = "ReturnStatement" ->
            IF IsNone(stmt.value) THEN <<"return", ";">>
            ELSE <<"return ">> \o expression_c_code(stmt.value) \o <<";">>
      [] stmt.k = "VarDeclStatement" ->
            IF IsNone(stmt.initial_value)
            THEN type_c_code(stmt.type_) \o <<" ", stmt.name.value, ";">>
            ELSE type_c_code(stmt.type_) \o <<" ", stmt.name.value, " = ">>
                     \o expression_c_code(stmt.initial_value) \o <<";">>
      [] OTHER -> AssertionError

\* the files generate_c writes: the definitions of classes.h, the
\* declarations and the definitions of functions.h and the body of main
NoOutput ==
    [class_c_definitions |-> <<>>, function_c_declarations |-> <<>>,
     function_c_definitions |-> <<>>, main_c_lines |-> <<>>, types_h |-> <<>>]

\* the underlying_type the table of builtin_types gives to a type; a type
\* that is constructed without one has its keyword
underlying_type(keyword) ==
    CASE keyword = "u1" -> "bool"
      [] keyword = "u8" -> "uint8_t"
      [] keyword = "u16" -> "uint16_t"
      [] keyword = "u32" -> "uint32_t"
      [] keyword = "u64" -> "uint64_t"
      [] keyword = "s8" -> "int8_t"
      [] keyword = "s16" -> "int16_t"
      [] keyword = "s32" -> "int32_t"
      [] keyword = "s64" -> "int64_t"
      [] keyword = "f32" -> "float"
      [] keyword = "f64" -> "double"
      [] OTHER -> keyword

\* Type.is_basic_type: every type but the classes and the lists
is_basic_type(type_) == type_.class \notin {"ClassType", "ListType"}

\* f"typedef {type_.underlying_type} {type_.keyword};\n"
typedef_line(type_) == <<"typedef ", underlying_type(type_.keyword), " ", type_.keyword, ";\n">>

\* the line of a type as often as the type occurs in self._types.values()
RECURSIVE typedef_lines(_, _)
typedef_lines(type_, times) ==
    IF times = 0 \/ ~is_basic_type(type_) \/ underlying_type(type_.keyword) = type_.keyword
    THEN <<>>
    ELSE <<typedef_line(type_)>> \o typedef_lines(type_, times - 1)

\* Types._generate_basic_type_header: the loop over self._types.values(),
\* which holds an object once for each keyword it is stored under; the lines
\* after the fixed head of the file
RECURSIVE generate_basic_type_header(_, _)
generate_basic_type_header(reg, id) ==
    IF id > Len(reg.heap) THEN <<>>
    ELSE typedef_lines(reg.heap[id],
                       Cardinality({keyword \in DOMAIN reg.types : reg.types[keyword] = id}))
             \o generate_basic_type_header(reg, id + 1)

RECURSIVE generate_c(_, _)
\* CodeGenerator.generate_c: the loop over the statements of the AST (34-41)
generate_c(statements, out) ==
    IF statements = <<>> THEN out
    ELSE generate_c(Tail(statements),
            CASE Head(statements).k = "ClassStatement" ->
                    [out EXCEPT !.class_c_definitions =
                        Append(@, statement_c_code(Head(statements)) \o <<"\n">>)]
              [] Head(statements).k = "FunctionStatement" ->
                    [out EXCEPT
                        !.function_c_declarations =
                            Append(@, c_declaration(Head(statements)) \o <<"\n">>),
                        !.function_c_definitions =
                            Append(@, statement_c_code(Head(statements)) \o <<"\n">>)]
              [] OTHER ->
                    [out EXCEPT !.main_c_lines =
                        Append(@, statement_c_code(Head(statements)) \o <<"\n">>)])

----------------------------------------------------------------------------
(* The AST after emission.  Two c_code methods assign to the nodes they    *)
(* read: CallExpression.consume sets call_consumed, and PrintStatement     *)
(* sets the line_end of its StringExpression.  x_after_c_code is the node  *)
(* x after its c_code() has returned.                                      *)

RECURSIVE expression_after_c_code(_)
RECURSIVE expressions_after_c_code(_)
RECURSIVE statement_after_c_code(_)
RECURSIVE statements_after_c_code(_)
RECURSIVE blocks_after_c_code(_)
RECURSIVE after_get_arguments(_)

\* the optional node after its c_code()
optional_after_c_code(e) == IF IsNone(e) THEN e ELSE expression_after_c_code(e)

\* the optional statement after its c_code()
optional_statement_after_c_code(stmt) ==
    IF IsNone(stmt) THEN stmt ELSE statement_after_c_code(stmt)

\* the elements of a list after the c_code() of each expression in it
expressions_after_c_code(expressions) ==
    IF expressions = <<>> THEN <<>>
    ELSE <<IF Head(expressions).k = "Token" THEN Head(expressions)
           ELSE expression_after_c_code(Head(expressions))>>
             \o expressions_after_c_code(Tail(expressions))

\* IdentifierExpression.get_arguments: the arguments of the call at the end
\* of the chain after their c_code()
after_get_arguments(e) ==
    IF IsNone(e.inner_expression) THEN e
    ELSE IF e.inner_expression.k = "IdentifierExpression"
    THEN [e EXCEPT !.inner_expression = after_get_arguments(@)]
    ELSE IF e.inner_expression.k = "CallExpression"
    THEN [e EXCEPT !.inner_expression.arguments = expressions_after_c_code(@)]
    ELSE e

\* IdentifierExpression._inner_c_code: the inner expression after its c_code()
after_inner_c_code(e) == [e EXCEPT !.inner_expression = optional_after_c_code(@)]

\* IdentifierExpression.c_code: inner_function_call runs for a class and for
\* a list, and consumes the call it finds
identifier_expression_after_c_code(e) ==
    IF (e.class_type # "None" \/ e.list_type # "None")
          /\ "k" \notin DOMAIN inner_function_call(e)
    THEN after_inner_c_code(after_get_arguments(after_inner_function_call(e)))
    ELSE after_inner_c_code(e)

expression_after_c_code(e) ==
    CASE e.k = "BinaryExpression" ->
            [e EXCEPT !.left = expression_after_c_code(@),
                      !.right = expression_after_c_code(@)]
      [] e.k = "CallExpression" ->
            IF e.call_consumed THEN e
            ELSE [e EXCEPT !.arguments = expressions_after_c_code(@)]
      [] e.k = "IdentifierExpression" -> identifier_expression_after_c_code(e)
      [] e.k = "StringEqualExpression" -> [e EXCEPT !.inner = expression_after_c_code(@)]
      [] e.k = "StringExpression" ->
            [e EXCEPT !.string_elements = expressions_after_c_code(@)]
      [] e.k = "ThisExpression" ->
            [e EXCEPT !.inner_expression = expression_after_c_code(@)]
      [] e.k \in {"TypeCastExpression", "UnaryExpression"} ->
            [e EXCEPT !.expression = expression_after_c_code(@)]
      [] OTHER -> e

statements_after_c_code(statements) ==
    IF statements = <<>> THEN <<>>
    ELSE <<statement_after_c_code(Head(statements))>>
             \o statements_after_c_code(Tail(statements))

\* the else-if blocks after the c_code() of their expressions and statements
blocks_after_c_code(blocks) ==
    IF blocks = <<>> THEN <<>>
    ELSE <<[Head(blocks) EXCEPT !.expression = expression_after_c_code(@),
                                !.statements = statements_after_c_code(@)]>>
             \o blocks_after_c_code(Tail(blocks))

\* PrintStatement.c_code: self.value.line_end = self.line_end
print_statement_after_c_code(stmt) ==
    IF stmt.value.k = "StringExpression"
    THEN [stmt EXCEPT !.value =
              expression_after_c_code([@ EXCEPT !.line_end = stmt.line_end])]
    ELSE [stmt EXCEPT !.value = expression_after_c_code(@)]

statement_after_c_code(stmt) ==
    CASE stmt.k = "AssignmentStatement" ->
            [stmt EXCEPT !.expression = expression_after_c_code(@),
                         !.value = expression_after_c_code(@)]
      [] stmt.k = "ClassStatement" ->
            [stmt EXCEPT !.variables = statements_after_c_code(@),
                         !.constructor = optional_statement_after_c_code(@),
                         !.destructor = optional_statement_after_c_code(@),
                         !.functions = statements_after_c_code(@)]
      [] stmt.k = "ExpressionStatement" ->
            [stmt EXCEPT !.expression = expression_after_c_code(@)]
      [] stmt.k = "ForLoopStatement" ->
            [stmt EXCEPT !.init = optional_statement_after_c_code(@),
                         !.check = optional_after_c_code(@),
                         !.loop = optional_statement_after_c_code(@),
                         !.statements = statements_after_c_code(@)]
      [] stmt.k \in {"FunctionStatement", "LifecycleStatement"} ->
            [stmt EXCEPT !.statements = statements_after_c_code(@)]
      [] stmt.k = "IfStatement" ->
            [stmt EXCEPT !.expression = expression_after_c_code(@),
                         !.statements = statements_after_c_code(@),
                         !.else_if_statement_blocks = blocks_after_c_code(@),
                         !.else_statements = statements_after_c_code(@)]
      [] stmt.k = "PrintStatement" -> print_statement_after_c_code(stmt)
      [] stmt.k = "ReturnStatement" -> [stmt EXCEPT !.value = optional_after_c_code(@)]
      [] stmt.k = "VarDeclStatement" ->
            [stmt EXCEPT !.initial_value = optional_after_c_code(@)]
      [] OTHER -> stmt

RECURSIVE HasAssertionError(_)
\* an assertion failed while a line was written
HasAssertionError(lines) ==
    IF lines = <<>> THEN FALSE
    ELSE (\E i \in 1..Len(Head(lines)) : Head(lines)[i] = "AssertionError")
            \/ HasAssertionError(Tail(lines))

Raised(out) ==
    HasAssertionError(out.class_c_definitions \o out.function_c_declarations
                          \o out.function_c_definitions \o out.main_c_lines)

\* GenerateC, once out is known
GenerateC_out(out) ==
    IF Raised(out) THEN phase' = "crashed" /\ output' = output /\ ast' = ast
    ELSE phase' = "emitted" /\ output' = out /\ ast' = statements_after_c_code(ast)

\* the driver calls the C emitter after AstCheck.run has returned
driver_emits == phase = "done"

\* CodeGenerator.generate_c
GenerateC ==
    /\ driver_emits
    /\ GenerateC_out(generate_c(ast,
                    [NoOutput EXCEPT !.types_h = generate_basic_type_header(registry, 1)]))
    /\ UNCHANGED <<source, tokens, parser, errors, pass, registry>>

----------------------------------------------------------------------------
(* The type registry (types/types.py).  Type objects live in a heap, an    *)
(* object is known by its index in it, and _types maps a keyword to the    *)
(* object stored for it.  `returned` lists the calls made: the operation,  *)
(* the keyword, the object returned, its value, and the object stored for  *)
(* the keyword at the return.                                              *)

\* None
NoObject == 0

BuiltinKeywords ==
    <<"void", "u1", "u8", "u16", "u32", "u64", "s8", "s16", "s32", "s64",
      "f32", "f64", "base", "char", "string">>

\* builtin_types: one object per type, u1 also under its keyword bool
builtin_types ==
    [types |-> [keyword \in {BuiltinKeywords[i] : i \in 1..Len(BuiltinKeywords)} \cup {"bool"} |->
                    CHOOSE i \in 1..Len(BuiltinKeywords) :
                        BuiltinKeywords[i] = CanonicalKeyword(keyword)],
     heap |-> [i \in 1..Len(BuiltinKeywords) |-> MkType(BuiltinKeywords[i])],
     returned |-> <<>>]

\* Type(keyword), ClassType(keyword), ListType(inner_type)
TypeObject(class, keyword) == [class |-> class, keyword |-> keyword, is_reference |-> FALSE]

\* f"list[{inner_type.keyword}]"
list_keyword(inner_keyword) ==
    CASE inner_keyword = "char" -> "list[char]"
      [] inner_keyword = "u8" -> "list[u8]"
      [] OTHER -> "list[]"

\* self._types[keyword] = type_, when the keyword is not in the collection
store(reg, keyword, object) ==
    IF keyword \in DOMAIN reg.types THEN reg
    ELSE [reg EXCEPT !.heap = Append(@, object),
                     !.types = Put(@, keyword, Len(reg.heap) + 1)]

\* deepcopy(type_): a new object with the value of the old one
deepcopy(reg, id) == [reg EXCEPT !.heap = Append(@, @[id])]

\* get that hands out the stored object itself
get_stored(reg, keyword) ==
    IF keyword \in DOMAIN reg.types
    THEN [r |-> "ok", reg |-> reg, id |-> reg.types[keyword]]
    ELSE [r |-> "ok", reg |-> reg, id |-> NoObject]

\* Types.get
get(reg, keyword) ==
    IF keyword \in DOMAIN reg.types
    THEN [r |-> "ok", reg |-> deepcopy(reg, reg.types[keyword]), id |-> Len(reg.heap) + 1]
    ELSE [r |-> "ok", reg |-> reg, id |-> NoObject]

\* getitem, once g is known
getitem_g(g) ==
    IF g.id = NoObject THEN [g EXCEPT !.r = "crash"] ELSE g

\* Types.__getitem__: the assertion fails for an unknown keyword
getitem(reg, keyword) ==
    getitem_g(get(reg, keyword))

\* the assertion isinstance(type, class)
assert_isinstance(g, class) ==
    IF g.r = "ok" /\ g.reg.heap[g.id].class # class THEN [g EXCEPT !.r = "crash"] ELSE g

\* Types.add
add(reg, keyword) == getitem(store(reg, keyword, TypeObject("Type", keyword)), keyword)

\* Types.add_class_type
add_class_type(reg, keyword) ==
    assert_isinstance(getitem(store(reg, keyword, TypeObject("ClassType", keyword)), keyword),
                      "ClassType")

\* add_list_type, once keyword is known
add_list_type_keyword(reg, keyword) ==
    assert_isinstance(
        getitem(store(reg, keyword, TypeObject("ListType", keyword)), keyword),
        "ListType")

\* Types.add_list_type
add_list_type(reg, inner_keyword) ==
    add_list_type_keyword(reg, list_keyword(inner_keyword))

\* Types.__init__: the builtin types and list[char]
InitRegistry == add_list_type(builtin_types, "char").reg

\* the call is written down with its result
Returned(operation, keyword, g) ==
    [g.reg EXCEPT !.returned =
        Append(@, [operation |-> operation, keyword |-> keyword, r |-> g.r, id |-> g.id,
                   value |-> IF g.r = "ok" /\ g.id # NoObject THEN g.reg.heap[g.id]
                             ELSE UnknownType,
                   stored |-> IF keyword \in DOMAIN g.reg.types THEN g.reg.types[keyword]
                              ELSE NoObject])]

----------------------------------------------------------------------------
(* Programs.  A program is a sequence of lines and a line is a sequence of *)
(* words; NL, IN and DE are the NEWLINE, INDENT and DEDENT tokens.         *)

RECURSIVE Flatten(_)
Flatten(lines) == IF lines = <<>> THEN <<>> ELSE Head(lines) \o Flatten(Tail(lines))

\* the token list of a program: the tokeniser ends it with EOF
TokensOf(lines) == Tokens(Flatten(lines) \o <<"EOF">>)

\* the sequences of 1..n items of a set
RECURSIVE SeqsUpTo(_, _)
\* SeqsUpTo, once shorter is known
SeqsUpTo_shorter(items, shorter) ==
    shorter \cup {Append(q, i) : q \in shorter, i \in items}

SeqsUpTo(items, n) ==
    IF n = 0 THEN {<<>>}
    ELSE SeqsUpTo_shorter(items, SeqsUpTo(items, n - 1))

\* the lines of a sequence of snippets
RECURSIVE Lines(_)
Lines(snippets) == IF snippets = <<>> THEN <<>> ELSE Head(snippets) \o Lines(Tail(snippets))

\* a program that passes every check
BasePrograms == { << <<"u8", "a", "NL">>, <<"a", "=", "1", "NL">> >> }

MaxOperators == 2
MaxStatements == 3

BinaryOperators ==
    {"&&", "||", "==", "!=", "<", "<=", ">", ">=", "+", "-", "*", "/"}

Operands == <<"a", "b", "c", "d">>

\* a op1 b op2 c ... NL
RECURSIVE Chain(_, _)
Chain(ops, i) ==
    IF ops = <<>> THEN <<Operands[i], "NL">>
    ELSE <<Operands[i], Head(ops)>> \o Chain(Tail(ops), i + 1)

ExpressionPrograms ==
    { <<Chain(ops, 1)>> : ops \in SeqsUpTo(BinaryOperators, MaxOperators) \ {<<>>} }

\* statements for the error recovery of generate: a correct line, three
\* lines with one syntax error each, and if blocks with an error inside
GoodLine == <<"1", "NL">>
BadLines == { <<"1", "+", "NL">>, <<"(", "1", "NL">>, <<"1", "1", "NL">> }
IfHeader == <<"if", "1", ":", "NL", "IN">>
Dedent == <<"DE">>

RecoveryItems ==
    { <<GoodLine>> } \cup { <<b>> : b \in BadLines }
        \cup { <<IfHeader, <<"1", "+", "NL">>, Dedent>>,
               <<IfHeader, GoodLine, <<"1", "+", "NL">>, GoodLine, Dedent>> }

RecoveryPrograms ==
    { Lines(q) : q \in SeqsUpTo(RecoveryItems, MaxStatements) \ {<<>>} }

\* loop nests with breakall statements
WhileHeader == <<"while", "true", ":", "NL", "IN">>
ForHeader == <<"for", ";", ";", ":", "NL", "IN">>
BreakallLine == <<"breakall", "NL">>

LoopItems ==
    { <<WhileHeader, BreakallLine, Dedent>>,
      <<WhileHeader, WhileHeader, BreakallLine, Dedent, BreakallLine, Dedent>>,
      <<ForHeader, BreakallLine, WhileHeader, BreakallLine, Dedent, Dedent>>,
      <<IfHeader, WhileHeader, ForHeader, BreakallLine, Dedent, Dedent, Dedent>>,
      << <<"1", "+", "NL">> >>,
      <<WhileHeader, <<"1", "+", "NL">>, BreakallLine, Dedent>>,
      << <<"for", "while", "true", ":", "NL", ";", ";", ":", "NL">> >> }

LoopPrograms ==
    { Lines(q) : q \in SeqsUpTo(LoopItems, MaxStatements) \ {<<>>} }

\* declarations and assignments over a range of types and values
DeclTypes == {"u8", "s8", "u16", "bool", "char", "string"}

Values ==
    { <<"1">>, <<"300">>, <<"true">>, <<"'c'">>, <<"-", "1">>, <<"(", "1", ")">>,
      <<"1", "+", "5">>, <<"1", "<", "5">>, <<"(", "u16", ")", "1">>, <<"y">>,
      <<"STR(", "chars", ")STR">> }

DeclPrograms ==
    { << <<t, "x", "=">> \o v \o <<"NL">>, <<"x", "=">> \o w \o <<"NL">> >> :
        t \in DeclTypes, v \in Values, w \in Values }

\* functions, classes, lists, strings, conditionals and loops
ClassHeader == <<"class", "Counter", ":", "NL", "IN">>
Constructor ==
    << <<"Counter", "(", "u8", "s", ")", ":", "NL", "IN">>,
       <<"this", ".", "n", "=", "s", "NL">>, Dedent >>
Destructor ==
    << <<"~", "Counter", "(", ")", ":", "NL", "IN">>,
       <<"this", ".", "n", "=", "0", "NL">>, Dedent >>
Method(value) ==
    << <<"u8", "get", "(", "u8", "d", ")", ":", "NL", "IN">>,
       <<"return", "this", ".", "n", "+", value, "NL">>, Dedent >>
Class(members) == <<ClassHeader, <<"u8", "n", "NL">> >> \o members \o <<Dedent>>

ClassPrograms ==
    { Class(c \o d \o m) \o use :
        c \in {<<>>, Constructor}, d \in {<<>>, Destructor},
        m \in {<<>>, Method("d"), Method("y")},
        use \in { <<>>,
                  << <<"Counter", "c", "NL">>,
                     <<"u8", "v", "=", "c", ".", "get", "(", "5", ")", "NL">> >>,
                  << <<"Counter", "c", "NL">>, <<"c", ".", "n", "=", "5", "NL">> >> } }

StatementPrograms ==
    { << <<"u8", "f", "(", "u8", "p", ",", "u8", "q", ")", ":", "NL", "IN">>,
         <<"return", "p", "+", "q", "NL">>, Dedent,
         <<"u8", "r", "=", "f", "(", "1", ",", "300", ")", "NL">> >>,
      << <<"s8", "f", "(", ")", ":", "NL", "IN">>, <<"return", "300", "NL">>, Dedent >>,
      << <<"u8", "f", "(", ")", ":", "NL", "IN">>, <<"return", "y", "NL">>, Dedent >>,
      << <<"void", "g", "(", ")", ":", "NL", "IN">>, <<"return", "NL">>, Dedent,
         <<"g", "(", ")", "NL">>, <<"g", "(", "1", ")", "NL">>, <<"h", "(", ")", "NL">> >>,
      << <<"list[u8]", "l", "NL">>, <<"u64", "z", "=", "l", ".", "size", "(", ")", "NL">> >>,
      << <<"u8", "x", "=", "1", "NL">>,
         <<"if", "x", "<", "5", ":", "NL", "IN">>, <<"x", "=", "5", "NL">>, Dedent,
         <<"else", "if", "x", "<", "1", ":", "NL", "IN">>, <<"x", "=", "0", "NL">>, Dedent,
         <<"else", ":", "NL", "IN">>, <<"x", "=", "y", "NL">>, Dedent >>,
      << <<"u8", "x", "=", "1", "NL">>,
         <<"print", "(", "STR(", "chars", "{", "x", "=", "}", "chars", ")STR", ")", "NL">>,
         <<"println", "(", "STR(", "{", "x", "}", ")STR", ")", "NL">> >>,
      << <<"for", "u8", "i", "=", "0", ";", "i", "<", "5", ";", "i", "++", ":", "NL", "IN">>,
         <<"continue", "NL">>, <<"break", "NL">>, Dedent >>,
      << <<"for", ";", "y", "<", "5", ";", ":", "NL", "IN">>, <<"u8", "x", "NL">>, Dedent >>,
      << <<"u8", "x", "=", "1", "NL">>, <<"u8", "x", "NL">>, <<"x", "+=", "1", "NL">>,
         <<"++", "x", "NL">>, <<"x", "--", "NL">>, <<"!", "true", "NL">> >>,
      << <<"u8", "a", "NL">>, <<"a", ".", "b", "=", "1", "NL">> >> }

\* functions and lifecycle bodies that return, with and without a value
ReturnTypes == {"void", "u8", "u16", "bool"}

ReturnValues ==
    { <<>>, <<"1">>, <<"true">>, <<"p">>, <<"(", "u16", ")", "1">>, <<"y">>,
      <<"g", "(", ")">> }

ReturnFunction(t, v, w) ==
    << <<"void", "g", "(", ")", ":", "NL", "IN">>, <<"return", "NL">>, Dedent,
       <<t, "f", "(", "u8", "p", ")", ":", "NL", "IN">>,
       <<"return">> \o v \o <<"NL">>, <<"return">> \o w \o <<"NL">>, Dedent >>

ReturnLifecycle(v) ==
    << ClassHeader, <<"u8", "n", "NL">>,
       <<"Counter", "(", "u8", "s", ")", ":", "NL", "IN">>,
       <<"return">> \o v \o <<"NL">>, Dedent, Dedent >>

ReturnPrograms ==
    { ReturnFunction(t, v, w) : t \in ReturnTypes, v \in ReturnValues, w \in {<<>>, <<"1">>} }
        \cup { ReturnLifecycle(v) : v \in {<<>>, <<"1">>, <<"s">>} }

\* method calls on a value, on a reference, on a list and at the end of a
\* chain of identifiers
Inc == << <<"void", "inc", "(", ")", ":", "NL", "IN">>, <<"return", "NL">>, Dedent >>
Other == << <<"class", "Other", ":", "NL", "IN">>, <<"u8", "m", "NL">>, Dedent >>

Receivers ==
    { << <<"Counter", "c", "NL">>, <<"c", ".", "inc", "(", ")", "NL">> >>,
      << <<"Counter", "c", "NL">>, <<"c", ".", "inc", "(", ")", "NL">>,
         <<"c", ".", "get", "(", "5", ")", "NL">> >>,
      << <<"Counter", "c", "NL">>, <<"u8", "a", "NL">>,
         <<"u8", "v", "=", "c", ".", "get", "(", "a", "+", "1", ")", "NL">> >>,
      << <<"void", "f", "(", "Counter", "r", ")", ":", "NL", "IN">>,
         <<"r", ".", "inc", "(", ")", "NL">>,
         <<"r", ".", "get", "(", "5", ")", "NL">>, Dedent >>,
      << <<"list[u8]", "l", "NL">>, <<"l", ".", "size", "(", ")", "NL">> >>,
      << <<"void", "f", "(", "list[u8]", "r", ")", ":", "NL", "IN">>,
         <<"r", ".", "size", "(", ")", "NL">>, Dedent >>,
      << <<"Counter", "c", "NL">>, <<"Other", "o", "NL">>,
         <<"o", ".", "c", ".", "get", "(", "5", ")", "NL">> >>,
      << <<"Counter", "c", "NL">>, <<"c", ".", "c", ".", "inc", "(", ")", "NL">> >>,
      << <<"Counter", "c", "NL">>, <<"c", ".", "put", "(", ")", "NL">> >> }

MethodPrograms == { Class(Inc \o Method("d")) \o Other \o use : use \in Receivers }

\* u8 x = 5 and println("value is {x=}"): the characters of the string
\* are the one token chars
PrintProgram ==
    << <<"u8", "x", "=", "5", "NL">>,
       <<"println", "(", "STR(", "chars", "{", "x", "=", "}", ")STR", ")", "NL">> >>

PrintTypes == {"u8", "u16", "u32", "u64", "s8", "bool", "char"}

PrintPrograms ==
    { << <<t, "x", "NL">>,
         <<w, "(", "STR(", "chars", "{", "x", "=", "}", ")STR", ")", "NL">> >> :
        t \in PrintTypes, w \in {"print", "println"} } \cup {PrintProgram}

\* declarations in a block and in the block around it, with a use of x in
\* each of them
IfTrue == <<"if", "true", ":", "NL", "IN">>
ScopeLines == { <<"u8", "x", "NL">>, <<"u16", "x", "NL">>, <<"u16", "y", "NL">> }

ScopePrograms ==
    { <<a, IfTrue, b, c, <<"x", "NL">>, Dedent, <<"x", "NL">>, d>> :
        a \in ScopeLines, b \in ScopeLines, c \in ScopeLines, d \in ScopeLines }

\* return statements inside and outside of function and lifecycle bodies,
\* after a body with a syntax error and after a function inside a function
ReturnLine == <<"return", "NL">>
FunctionHeader(name) == <<"void", name, "(", ")", ":", "NL", "IN">>

ReturnPlaceItems ==
    { <<>>,
      <<ReturnLine>>,
      <<GoodLine>>,
      <<FunctionHeader("f"), ReturnLine, Dedent>>,
      <<FunctionHeader("f"), <<"1", "+", "NL">>, Dedent>>,
      <<FunctionHeader("f"), FunctionHeader("g"), ReturnLine, Dedent, ReturnLine, Dedent>>,
      <<FunctionHeader("f"), IfTrue, ReturnLine, Dedent, ReturnLine, Dedent>>,
      <<IfTrue, ReturnLine, Dedent>>,
      <<ClassHeader, <<"Counter", "(", ")", ":", "NL", "IN">>, ReturnLine, Dedent, Dedent>> }

ReturnPlacePrograms ==
    { a \o b : a \in ReturnPlaceItems, b \in ReturnPlaceItems } \ {<<>>}

\* this, a function and a call after a class, after a class with a wrong
\* member and after a class with a syntax error in a method
ThisLine == <<"this", ".", "n", "=", "1", "NL">>
CallLine == <<"h", "(", ")", "NL">>
MethodHeader == <<"u8", "get", "(", "u8", "d", ")", ":", "NL", "IN">>

ThisClasses ==
    { <<>>,
      Class(Method("d")),
      <<ClassHeader, <<"u8", "n", "NL">>, MethodHeader, CallLine, ThisLine, Dedent, Dedent>>,
      <<ClassHeader, <<"u8", "n", "NL">>, GoodLine, Dedent>>,
      <<ClassHeader, <<"u8", "n", "NL">>, MethodHeader, <<"1", "+", "NL">>, Dedent, Dedent>> }

ThisItems ==
    { <<>>, <<ThisLine>>, <<CallLine>>, <<FunctionHeader("f"), ReturnLine, Dedent>> }

ThisPrograms ==
    { c \o a \o b : c \in ThisClasses, a \in ThisItems, b \in ThisItems } \ {<<>>}

\* one reference to y, with and without a declaration of y before it
DeclareY == <<"u8", "y", "NL">>
FunctionG == << <<"void", "g", "(", "u8", "p", ")", ":", "NL", "IN">>, ReturnLine, Dedent >>

References ==
    { <<"y", "NL">>, <<"u8", "a", "=", "y", "+", "1", "NL">>,
      <<"u8", "a", "=", "1", "-", "y", "NL">>, <<"g", "(", "y", ")", "NL">>,
      <<"y", ".", "n", "NL">>, <<"++", "y", "NL">>, <<"--", "y", "NL">>,
      <<"y", "++", "NL">>, <<"y", "--", "NL">>, <<"u8", "y", "=", "y", "NL">>,
      <<"u8", "y", "=", "y", "+", "1", "NL">> }

ReferencePrograms ==
    { FunctionG \o d \o <<r>> : d \in {<<>>, <<DeclareY>>}, r \in References }

\* calls of a function, of a method of a class and of a method of a list,
\* with every number and type of arguments
FunctionF ==
    << <<"void", "f", "(", "u8", "p", ",", "char", "q", ")", ":", "NL", "IN">>, ReturnLine, Dedent >>

ArgumentDeclarations ==
    << <<"u8", "a", "NL">>, <<"char", "k", "NL">>, <<"u16", "w", "NL">>,
       <<"Counter", "c", "NL">>, <<"list[u8]", "l", "NL">> >>

Callees == { <<"f">>, <<"c", ".", "get">>, <<"l", ".", "size">> }

ArgumentWords == {"a", "k", "w", "1"}

ArgumentLists ==
    {<<>>} \cup { <<x>> : x \in ArgumentWords }
          \cup { <<x, ",", y>> : x \in ArgumentWords, y \in ArgumentWords }
          \cup { <<"a", ",", "k", ",", x>> : x \in {"a", "k"} }

ArgumentPrograms ==
    { Class(Method("d")) \o FunctionF \o ArgumentDeclarations
          \o << callee \o <<"(">> \o arguments \o <<")", "NL">> >> :
        callee \in Callees, arguments \in ArgumentLists }

\* a field of a class used from outside of the class, with and without an
\* identifier of the same name around the use
FieldUses ==
    { <<"c", ".", "n", "NL">>, <<"c", ".", "n", "=", "5", "NL">>,
      <<"u8", "v", "=", "c", ".", "n", "NL">>, <<"u16", "v", "=", "c", ".", "n", "NL">> }

ChainPrograms ==
    { <<ClassHeader, <<"u8", "n", "NL">>, Dedent, <<"Counter", "c", "NL">> >> \o around \o <<use>> :
        around \in { <<>>, << <<"u8", "n", "NL">> >>, << <<"u16", "n", "NL">> >> },
        use \in FieldUses }

\* a class between a declaration of g and a use of g, of the field n or of
\* the method get; the method uses n, g or its parameter d
ScopedMethod(use) == <<MethodHeader, <<use, "NL">>, <<"return", "d", "NL">>, Dedent>>

UsesAfterClass ==
    { <<>>, << <<"n", "NL">> >>, << <<"g", "NL">> >>, << <<"get", "(", "1", ")", "NL">> >> }

ClassScopePrograms ==
    { before \o Class(ScopedMethod(use)) \o after :
        before \in { <<>>, << <<"u8", "g", "NL">> >> },
        use \in {"n", "g", "d"},
        after \in UsesAfterClass }

\* break, breakall and continue at the top level, in a conditional, in a
\* function, in a loop, and after an error inside a loop body
ControlWords == {"break", "breakall", "continue"}
ControlLine(w) == <<w, "NL">>
ControlItems(w) ==
    { <<ControlLine(w)>>,
      <<WhileHeader, ControlLine(w), Dedent>>,
      <<ForHeader, ControlLine(w), Dedent>>,
      <<IfTrue, ControlLine(w), Dedent>>,
      <<FunctionHeader("f"), ControlLine(w), Dedent>>,
      <<WhileHeader, <<"1", "+", "NL">>, ControlLine(w), Dedent>>,
      <<WhileHeader, IfTrue, ControlLine(w), Dedent, Dedent>> }

ControlPrograms ==
    { Lines(<<a>> \o b) : a \in UNION { ControlItems(w) : w \in ControlWords },
                           b \in {<<>>} \cup { <<c>> : c \in ControlItems("break") } }

\* a function f, and a call of f in a block that may declare a variable f
ShadowTypes == {"u8", "u16", "bool"}
ShadowFunction(t) ==
    << <<t, "f", "(", ")", ":", "NL", "IN">>, <<"return", "1", "NL">>, Dedent >>
ShadowDeclarations == {<<>>} \cup { << <<t, "f", "=", "1", "NL">> >> : t \in ShadowTypes }
ShadowBlock(declaration, t) ==
    <<IfTrue>> \o declaration \o << <<t, "x", "=", "f", "(", ")", "NL">>, Dedent >>
ShadowPrograms ==
    { Lines(<<ShadowFunction(t), ShadowBlock(d, x)>>) :
        t \in {"u8", "u16"}, d \in ShadowDeclarations, x \in {"u8", "u16"} }

\* members whose arguments raise in the typing pass, which the scoping pass
\* does not visit, followed by code that uses both stacks
TwiceMethod ==
    << <<"u8", "get", "(", "u8", "d", ",", "u8", "d", ")", ":", "NL", "IN">>,
       <<"return", "1", "NL">>, Dedent >>
TwiceConstructor ==
    << <<"Counter", "(", "u8", "s", ",", "u8", "s", ")", ":", "NL", "IN">>,
       <<"this", ".", "n", "=", "s", "NL">>, Dedent >>
StackUses ==
    { <<>>, ShadowFunction("u8"),
      << <<"Counter", "c", "NL">>, <<"c", ".", "n", "=", "1", "NL">> >>,
      << <<"Counter", "c", "NL">>, <<"c", ".", "zz", "=", "1", "NL">> >> }
StackPrograms ==
    { Class(m \o n) \o use :
        m \in {<<>>, TwiceConstructor}, n \in {TwiceMethod, Method("d")}, use \in StackUses }

Programs ==
    BasePrograms \cup StackPrograms \cup ShadowPrograms \cup ControlPrograms \cup ClassScopePrograms \cup ChainPrograms \cup ArgumentPrograms \cup ReferencePrograms \cup ThisPrograms \cup ReturnPlacePrograms \cup ScopePrograms \cup PrintPrograms \cup MethodPrograms \cup ReturnPrograms \cup ClassPrograms \cup StatementPrograms \cup ExpressionPrograms \cup RecoveryPrograms \cup LoopPrograms
        \cup DeclPrograms

----------------------------------------------------------------------------
(* The compiler run: tokens of a program, then generate, the scoping pass, *)
(* the typing pass and verify_types                                        *)

Init ==
    /\ source \in Programs
    /\ tokens = TokensOf(source)
    /\ parser = InitParser
    /\ ast = <<>>
    /\ errors = <<>>
    /\ phase = "generate"
    /\ pass = InitPass
    /\ registry = InitRegistry
    /\ output = NoOutput

Next ==
    \/ GenerateStep
    \/ GenerateEnd
    \/ ScopingStep
    \/ ScopingEnd
    \/ TypingStep
    \/ TypingEnd
    \/ VerifyTypes
    \/ GenerateC

Spec == Init /\ [][Next]_vars

----------------------------------------------------------------------------
(* Properties of the expression parser                                     *)

\* the precedence levels, from low to high
LogicalOperators == {"&&", "||"}
ComparisonOperators == {"==", "!=", "<", "<=", ">", ">="}
AdditiveOperators == {"+", "-"}
MultiplicativeOperators == {"*", "/"}

Level(op) ==
    CASE op \in LogicalOperators -> 1
      [] op \in ComparisonOperators -> 2
      [] op \in AdditiveOperators -> 3
      [] op \in MultiplicativeOperators -> 4

\* the tree of an expression written with a pair of parentheses around
\* every BinaryExpression
RECURSIVE Grouping(_)
Grouping(e) ==
    CASE e.k = "BinaryExpression" ->
            <<"(">> \o Grouping(e.left) \o <<e.token.value>> \o Grouping(e.right) \o <<")">>
      [] e.k = "IdentifierExpression" -> <<e.identifier_token.value>>
      [] OTHER -> <<"?">>

\* the operators of a chain a op1 b op2 c ...
OperatorsOf(words) == [i \in 1..(Len(words) \div 2) |-> words[2 * i]]

\* SplitAt, once lowest is known
SplitAt_lowest(lowest) ==
    CHOOSE i \in lowest : \A j \in lowest : j <= i

\* SplitAt, once ops is known
SplitAt_ops(words, ops) ==
    SplitAt_lowest({ i \in ops : \A j \in ops : Level(words[i]) <= Level(words[j]) })

\* the position of the last operator of the lowest level of a chain
SplitAt(words) ==
    SplitAt_ops(words, { i \in 1..Len(words) : i % 2 = 0 })

\* the grouping a chain is to have: operators of a higher level bind first,
\* operators of the same level from left to right
RECURSIVE Expected(_)
\* Expected, once i is known
Expected_i(words, i) ==
    <<"(">> \o Expected(SubSeq(words, 1, i - 1)) \o <<words[i]>>
        \o Expected(SubSeq(words, i + 1, Len(words))) \o <<")">>

Expected(words) ==
    IF Len(words) = 1 THEN words
    ELSE Expected_i(words, SplitAt(words))

\* the chain of the program, without its newline
ChainOf(lines) == SubSeq(lines[1], 1, Len(lines[1]) - 1)

SameLevel(words) ==
    \A i, j \in 1..Len(OperatorsOf(words)) :
        Level(OperatorsOf(words)[i]) = Level(OperatorsOf(words)[j])

\* generate has parsed the whole chain
ChainParsed == source \in ExpressionPrograms /\ phase = "generate" /\ is_at_end(parser)

ParsedAsExpected ==
    /\ errors = <<>>
    /\ Len(ast) = 1
    /\ ast[1].k = "ExpressionStatement"
    /\ Grouping(ast[1].expression) = Expected(ChainOf(source))

\* C4: operators of the same precedence level associate to the left:
\* a op1 b op2 c is parsed as ((a op1 b) op2 c)
C4_LeftAssociative ==
    (ChainParsed /\ Len(ChainOf(source)) >= 5 /\ SameLevel(ChainOf(source)))
        => ParsedAsExpected

C4_Witness ==
    /\ ChainParsed
    /\ ChainOf(source) = <<"a", "-", "b", "+", "c">>
    /\ Grouping(ast[1].expression) = <<"(", "(", "a", "-", "b", ")", "+", "c", ")">>

\* C5: an operator of a higher precedence level binds before one of a lower
\* level: a LO b HI c is parsed as (a LO (b HI c)) and a HI b LO c as
\* ((a HI b) LO c)
C5_Precedence ==
    (ChainParsed /\ Len(ChainOf(source)) >= 5 /\ ~SameLevel(ChainOf(source)))
        => ParsedAsExpected

C5_Witness ==
    /\ ChainParsed
    /\ ChainOf(source) = <<"a", "||", "b", "*", "c">>
    /\ Grouping(ast[1].expression) = <<"(", "a", "||", "(", "b", "*", "c", ")", ")">>

----------------------------------------------------------------------------
(* The nodes of an AST                                                     *)

Optional(node) == IF IsNone(node) THEN <<>> ELSE <<node>>

IsExpression(element) == element.k # "Token"

\* the expressions directly below an expression
ExpressionChildren(e) ==
    CASE e.k = "BinaryExpression" -> <<e.left, e.right>>
      [] e.k \in {"UnaryExpression", "TypeCastExpression"} -> <<e.expression>>
      [] e.k = "IdentifierExpression" -> Optional(e.inner_expression)
      [] e.k = "CallExpression" -> <<e.expression>> \o e.arguments
      [] e.k = "ThisExpression" -> <<e.inner_expression>>
      [] e.k = "StringEqualExpression" -> <<e.inner>>
      [] e.k = "StringExpression" -> SelectSeq(e.string_elements, IsExpression)
      [] OTHER -> <<>>

RECURSIVE BlockExpressions(_)
BlockExpressions(blocks) ==
    IF blocks = <<>> THEN <<>>
    ELSE <<Head(blocks).expression>> \o BlockExpressions(Tail(blocks))

RECURSIVE BlockStatements(_)
BlockStatements(blocks) ==
    IF blocks = <<>> THEN <<>>
    ELSE Head(blocks).statements \o BlockStatements(Tail(blocks))

\* the expressions directly below a statement
StatementExpressions(stmt) ==
    CASE stmt.k = "AssignmentStatement" -> <<stmt.expression, stmt.value>>
      [] stmt.k = "ExpressionStatement" -> <<stmt.expression>>
      [] stmt.k = "ForLoopStatement" -> Optional(stmt.check)
      [] stmt.k = "IfStatement" ->
            <<stmt.expression>> \o BlockExpressions(stmt.else_if_statement_blocks)
      [] stmt.k = "PrintStatement" -> <<stmt.value>>
      [] stmt.k = "ReturnStatement" -> Optional(stmt.value)
      [] stmt.k = "VarDeclStatement" -> Optional(stmt.initial_value)
      [] OTHER -> <<>>

\* the statements directly below a statement
StatementChildren(stmt) ==
    CASE stmt.k = "ClassStatement" ->
            stmt.variables \o Optional(stmt.constructor) \o Optional(stmt.destructor)
                \o stmt.functions
      [] stmt.k = "ForLoopStatement" ->
            Optional(stmt.init) \o Optional(stmt.loop) \o stmt.statements
      [] stmt.k \in {"FunctionStatement", "LifecycleStatement"} -> stmt.statements
      [] stmt.k = "IfStatement" ->
            stmt.statements \o BlockStatements(stmt.else_if_statement_blocks)
                \o stmt.else_statements
      [] OTHER -> <<>>

RECURSIVE ExpressionsBelow(_)
\* the expressions of a list and every expression below them
ExpressionsBelow(expressions) ==
    IF expressions = <<>> THEN <<>>
    ELSE <<Head(expressions)>> \o ExpressionsBelow(ExpressionChildren(Head(expressions)))
             \o ExpressionsBelow(Tail(expressions))

RECURSIVE StatementsBelow(_)
\* the statements of a list and every statement below them
StatementsBelow(statements) ==
    IF statements = <<>> THEN <<>>
    ELSE <<Head(statements)>> \o StatementsBelow(StatementChildren(Head(statements)))
             \o StatementsBelow(Tail(statements))

RECURSIVE ExpressionsOf(_)
ExpressionsOf(statements) ==
    IF statements = <<>> THEN <<>>
    ELSE ExpressionsBelow(StatementExpressions(Head(statements)))
             \o ExpressionsOf(Tail(statements))

\* every statement and every expression reachable from the root
AllStatements == StatementsBelow(ast)
AllExpressions == ExpressionsOf(AllStatements)

Some(nodes, kind) == \E i \in 1..Len(nodes) : nodes[i].k = kind

----------------------------------------------------------------------------
(* Properties of the passes                                                *)

EveryExpressionTyped ==
    \A i \in 1..Len(AllExpressions) : AllExpressions[i].type_ # UnknownType

\* C1: after a typing pass that recorded no error every expression
\* reachable from the root has a type other than the unknown type, and
\* verify_types passes
C1_TypedAfterTypingPass ==
    (phase = "verify" \/ (phase = "typing" /\ pass.index > Len(ast) /\ pass.errors = <<>>))
        => EveryExpressionTyped /\ verify_statements(ast)

C1_Witness ==
    /\ phase = "verify"
    /\ Some(AllExpressions, "CallExpression")
    /\ Some(AllExpressions, "ThisExpression")
    /\ Some(AllStatements, "LifecycleStatement")
    /\ EveryExpressionTyped

\* a pass has visited every statement
PassAtEnd == phase \in {"scoping", "typing"} /\ pass.index > Len(ast)

\* C2: at the end of the run of each semantic pass, whatever errors were
\* raised and caught, only the global scope remains and the stash is empty
C2_ScopesBalanced ==
    PassAtEnd => is_global_scope(pass.scope_wrapper) /\ pass.stash = <<>>

C2_Witness ==
    /\ PassAtEnd
    /\ Len(pass.errors) >= 2
    /\ Some(AllStatements, "ClassStatement")
    /\ Some(AllStatements, "FunctionStatement")
    /\ is_global_scope(pass.scope_wrapper)
    /\ pass.stash = <<>>

----------------------------------------------------------------------------
(* Properties of the AST                                                   *)

RECURSIVE LoopLabels(_, _)
\* LoopLabels, once stmt is known
LoopLabels_stmt(outer, stmt) ==
    CASE stmt.k = "ForLoopStatement" ->
            IF outer = NoLabel
            THEN /\ stmt.breakall_label = stmt.token.start
                 /\ LoopLabels(StatementChildren(stmt), stmt.token.start)
            ELSE /\ stmt.breakall_label = NoLabel
                 /\ LoopLabels(StatementChildren(stmt), outer)
      [] stmt.k = "BreakallStatement" -> stmt.breakall_label = outer
      [] OTHER -> LoopLabels(StatementChildren(stmt), outer)

\* outer is the start offset of the outermost loop around the statements,
\* NoLabel outside of every loop
LoopLabels(statements, outer) ==
    \A i \in 1..Len(statements) :
        LoopLabels_stmt(outer, statements[i])

\* C6: exactly the outermost loop of every loop nest carries the label
\* breakall_<its start offset>, the loops nested in it carry none, and every
\* BreakallStatement records the label of the outermost loop around it
C6_BreakallLabels == LoopLabels(ast, NoLabel)

\* the parameters of the functions and lifecycle functions of the AST
ParametersByReference(kind) ==
    \A i \in 1..Len(AllStatements) :
        AllStatements[i].k = kind =>
            \A j \in 1..Len(AllStatements[i].arguments) :
                AllStatements[i].arguments[j].type_.is_reference

\* C8: after the typing pass every parameter type of every
\* FunctionStatement and of every LifecycleStatement has is_reference set
C8_ParametersAreReferences ==
    phase \in {"verify", "done"} =>
        ParametersByReference("FunctionStatement")
            /\ ParametersByReference("LifecycleStatement")

CoversAll(node, children) ==
    \A i \in 1..Len(children) :
        Covers(node.source_location, children[i].source_location)

\* C9: the span of every statement and of every expression contains the
\* span of each of its syntactic children
C9_SpansCoverChildren ==
    /\ \A i \in 1..Len(AllStatements) :
          CoversAll(AllStatements[i],
                    StatementExpressions(AllStatements[i])
                        \o StatementChildren(AllStatements[i]))
    /\ \A i \in 1..Len(AllExpressions) :
          CoversAll(AllExpressions[i], ExpressionChildren(AllExpressions[i]))

RECURSIVE Pow2(_)
Pow2(n) == IF n = 0 THEN 1 ELSE 2 * Pow2(n - 1)

UnsignedTypes == {"u8", "u16"}
SignedTypes == {"s8"}
BitsOf(keyword) == IF keyword = "u16" THEN 16 ELSE 8

\* the value lies in the range of the integer type
InRange(keyword, value) ==
    IF keyword \in UnsignedTypes THEN 0 <= value /\ value <= Pow2(BitsOf(keyword)) - 1
    ELSE -Pow2(BitsOf(keyword) - 1) <= value /\ value <= Pow2(BitsOf(keyword) - 1) - 1

\* word at of the line is a literal outside the range of the type
LiteralOutOfRange(keyword, line, at) ==
    /\ Len(line) = at + 1
    /\ line[at] \in NumberWords
    /\ ~InRange(keyword, NumberValue(line[at]))

\* C10: a numeric literal outside the range of the integer type of the
\* variable it initialises or is assigned to makes the typing pass record
\* an error, so that the verification is never reached
C10_OutOfRangeRejected ==
    (/\ source \in DeclPrograms
     /\ source[1][1] \in UnsignedTypes \cup SignedTypes
     /\ \/ LiteralOutOfRange(source[1][1], source[1], 4)
        \/ LiteralOutOfRange(source[1][1], source[2], 3))
        => phase \notin {"verify", "done"}

----------------------------------------------------------------------------
(* Properties of the error recovery of generate                            *)

RECURSIVE WordsBefore(_, _)
\* the number of tokens before line i
WordsBefore(lines, i) ==
    IF i = 1 THEN 0 ELSE WordsBefore(lines, i - 1) + Len(lines[i - 1])

ErroneousLines(lines) == { i \in 1..Len(lines) : lines[i] \in BadLines }

\* line i is a correct statement that follows an erroneous one
FollowsAnError(lines, i) ==
    lines[i] = GoodLine /\ \E j \in ErroneousLines(lines) : j < i

\* line i became a statement of the AST
Parsed(lines, i) ==
    \E n \in 1..Len(AllStatements) :
        /\ AllStatements[n].k = "ExpressionStatement"
        /\ AllStatements[n].source_location.start = TokenStride * WordsBefore(lines, i)

\* the error was raised at a token of line i
RaisedIn(error, lines, i) ==
    /\ WordsBefore(lines, i) <= error.at
    /\ error.at < WordsBefore(lines, i) + Len(lines[i])

\* generate has come to the end of the tokens
Generated == phase = "exit1" \/ (phase = "generate" /\ is_at_end(parser))

\* C3: N statements with one syntax error each, at top level or inside an
\* indented block, give exactly N errors, one per erroneous statement; the
\* correct statements after them are parsed and give no error; the
\* compiler exits with code 1
C3_OneErrorPerStatement ==
    source \in RecoveryPrograms =>
        /\ Generated =>
              /\ Len(errors) = Cardinality(ErroneousLines(source))
              /\ \A i \in ErroneousLines(source) :
                    \E n \in 1..Len(errors) : RaisedIn(errors[n], source, i)
              /\ \A n \in 1..Len(errors) :
                    \E i \in ErroneousLines(source) : RaisedIn(errors[n], source, i)
              /\ \A i \in 1..Len(source) : FollowsAnError(source, i) => Parsed(source, i)
        /\ (ErroneousLines(source) # {} /\ phase # "generate") => phase = "exit1"

\* the same for programs whose statements are all at top level
C3_TopLevel ==
    (\A i \in 1..Len(source) : source[i] \in BadLines \cup {GoodLine})
        => C3_OneErrorPerStatement

----------------------------------------------------------------------------
(* The users of the type registry: the tokeniser, the parser and the       *)
(* passes add and look up types, and the typing pass modifies the types    *)
(* it was handed                                                           *)

MaxCalls == 3

AddedKeywords == {"Thing", "u8"}
AddedClasses == {"Counter", "u8", "Thing"}
InnerKeywords == {"char", "u8"}
LookedUp == {"Counter", "list[u8]", "Nothing"}

TypesInit ==
    /\ source = <<>>
    /\ tokens = TokensOf(source)
    /\ parser = InitParser
    /\ ast = <<>>
    /\ errors = <<>>
    /\ phase = "registry"
    /\ pass = InitPass
    /\ registry = InitRegistry
    /\ output = NoOutput

\* a call of the registry; a failed assertion ends the run
Call(operation, keyword, g) ==
    /\ phase = "registry"
    /\ Len(registry.returned) < MaxCalls
    /\ registry' = Returned(operation, keyword, g)
    /\ phase' = IF g.r = "ok" THEN phase ELSE "crashed"
    /\ UNCHANGED <<source, tokens, parser, ast, errors, pass, output>>

TypesAdd == \E keyword \in AddedKeywords : Call("add", keyword, add(registry, keyword))

TypesAddClassType ==
    \E keyword \in AddedClasses :
        Call("add_class_type", keyword, add_class_type(registry, keyword))

TypesAddListType ==
    \E inner \in InnerKeywords :
        Call("add_list_type", list_keyword(inner), add_list_type(registry, inner))

TypesGet == \E keyword \in LookedUp : Call("get", keyword, get(registry, keyword))

\* type_.is_reference = True on the type that was returned last
ModifyType ==
    /\ phase = "registry"
    /\ registry.returned # <<>>
    /\ Last(registry.returned).id # NoObject
    /\ registry' = [registry EXCEPT !.heap[Last(registry.returned).id].is_reference = TRUE]
    /\ UNCHANGED <<source, tokens, parser, ast, errors, phase, pass, output>>

\* Types.generate_c_headers: types.h
TypesGenerateHeaders ==
    /\ phase = "registry"
    /\ output' = [output EXCEPT !.types_h = generate_basic_type_header(registry, 1)]
    /\ UNCHANGED <<source, tokens, parser, ast, errors, phase, pass, registry>>

TypesNext ==
    \/ TypesAdd
    \/ TypesAddClassType
    \/ TypesAddListType
    \/ TypesGet
    \/ ModifyType
    \/ TypesGenerateHeaders

TypesSpec == TypesInit /\ [][TypesNext]_vars

\* the calls that returned an object
ReturnedObjects ==
    { i \in 1..Len(registry.returned) :
        registry.returned[i].r = "ok" /\ registry.returned[i].id # NoObject }

Adding == {"add_class_type", "add_list_type"}

\* the collection keeps the object it stored first for a keyword
SingleEntry ==
    \A i \in ReturnedObjects :
        registry.returned[i].stored = registry.types[registry.returned[i].keyword]

\* a returned object is a copy: another object than the stored one, with
\* the value of the stored one
FreshCopy(i) ==
    /\ registry.returned[i].id # registry.returned[i].stored
    /\ registry.returned[i].value = registry.heap[registry.returned[i].stored]

----------------------------------------------------------------------------
(* Properties of return statements in the typing pass                      *)

RECURSIVE ReturnsIn(_, _)
\* the return statements below a statement, each with the declared return
\* type of the function or lifecycle body around it, in the order of the visit
ReturnsInStatement(stmt, return_type) ==
    CASE stmt.k = "ReturnStatement" -> <<[statement |-> stmt, return_type |-> return_type]>>
      [] stmt.k = "FunctionStatement" -> ReturnsIn(stmt.statements, TokType(stmt.return_type))
      [] stmt.k = "LifecycleStatement" -> ReturnsIn(stmt.statements, MkType("void"))
      [] OTHER -> ReturnsIn(StatementChildren(stmt), return_type)

ReturnsIn(statements, return_type) ==
    IF statements = <<>> THEN <<>>
    ELSE ReturnsInStatement(Head(statements), return_type)
             \o ReturnsIn(Tail(statements), return_type)

Returns == ReturnsIn(ast, UnknownType)

ReturnMessages ==
    {"non-void function expects a return value!", "void function expects no return value",
     "expected return value of type"}

IsReturnMessage(msg) == msg \in ReturnMessages

\* the value of a return statement was given a type by the typing pass
ValueTyped(ret) ==
    ~IsNone(ret.statement.value) /\ get_expression_type(ret.statement.value) # UnknownType

\* the typing error a return statement is to have, <<>> when it is accepted
ReturnVerdict(ret) ==
    IF ~non_void(ret.return_type)
    THEN IF IsNone(ret.statement.value) THEN <<>>
         ELSE <<"void function expects no return value">>
    ELSE IF IsNone(ret.statement.value) THEN <<"non-void function expects a return value!">>
    ELSE IF ValueTyped(ret)
           /\ ~check_types(ret.return_type, get_expression_type(ret.statement.value)).ok
    THEN <<"expected return value of type">>
    ELSE <<>>

RECURSIVE ReturnVerdicts(_)
ReturnVerdicts(returns) ==
    IF returns = <<>> THEN <<>>
    ELSE ReturnVerdict(Head(returns)) \o ReturnVerdicts(Tail(returns))

\* the typing pass has visited every statement
TypingAtEnd == phase = "typing" /\ pass.index > Len(ast)

\* C11: of the return statements the typing pass visits, one with a value
\* in a void function or a lifecycle body and one without a value in a
\* non-void function are typing errors, and one with a value in a non-void
\* function is accepted exactly when check_types(declared return type, type
\* of the value) succeeds, 'expected return value of type' being recorded
\* otherwise
C11_ReturnChecked ==
    TypingAtEnd => SelectSeq(pass.errors, IsReturnMessage) = ReturnVerdicts(Returns)

C11_Witness ==
    /\ TypingAtEnd
    /\ \E i \in 1..Len(Returns) :
          /\ Returns[i].return_type.keyword = "u8"
          /\ ValueTyped(Returns[i])
          /\ get_expression_type(Returns[i].statement.value).keyword = "u16"
    /\ \E i \in 1..Len(Returns) :
          /\ Returns[i].return_type.keyword = "u8"
          /\ ValueTyped(Returns[i])
          /\ get_expression_type(Returns[i].statement.value).keyword = "base"
    /\ pass.errors = <<"expected return value of type">>

----------------------------------------------------------------------------
(* Properties of the C code of method calls                                *)

RECURSIVE receiver(_)
RECURSIVE path(_)

\* the expression is a chain of identifiers that ends in a call
HasCall(e) == e.k = "IdentifierExpression" /\ "k" \notin DOMAIN inner_function_call(e)

RECURSIVE ExpressionsOfStatements(_)
\* the expressions directly below the statements of a list
ExpressionsOfStatements(statements) ==
    IF statements = <<>> THEN <<>>
    ELSE StatementExpressions(Head(statements)) \o ExpressionsOfStatements(Tail(statements))

\* the identifier the method is called on: the last one of the chain
receiver(e) ==
    IF e.inner_expression.k = "IdentifierExpression" THEN receiver(e.inner_expression) ELSE e

\* the chain up to the receiver, as C
path(e) ==
    IF e.inner_expression.k = "IdentifierExpression"
    THEN <<e.identifier_token.value, join(e)>> \o path(e.inner_expression)
    ELSE <<e.identifier_token.value>>

\* ClassName_ for a receiver of a class, list_<inner>_ for a list
ReceiverPrefix(type_) ==
    IF type_.class = "ListType" THEN <<"list_", inner_type(type_.keyword), "_">>
    ELSE <<type_.keyword, "_">>

\* the call the method call is to become
ExpectedCall(e) ==
    ReceiverPrefix(receiver(e).type_)
        \o <<receiver(e).inner_expression.expression.identifier_token.value, "(">>
        \o Join(<<(IF receiver(e).type_.is_reference THEN <<>> ELSE <<"&">>) \o path(e)>>
                    \o expressions_c_code(receiver(e).inner_expression.arguments))
        \o <<")">>

\* the lines of the C files
OutputLines ==
    output.class_c_definitions \o output.function_c_declarations
        \o output.function_c_definitions \o output.main_c_lines

\* the code is part of a line of the C files
Occurs(code) ==
    \E l \in 1..Len(OutputLines) : \E i \in 1..Len(OutputLines[l]) :
        /\ i + Len(code) - 1 <= Len(OutputLines[l])
        /\ SubSeq(OutputLines[l], i, i + Len(code) - 1) = code

\* the method calls that are the expression of a statement
MethodCalls == SelectSeq(ExpressionsOfStatements(AllStatements), HasCall)

Emitted == phase = "emitted"

\* C12: a method call obj.m(args) is emitted as ClassName_m(&obj, args...)
\* for a receiver that is no reference and as ClassName_m(obj, args...) for
\* a reference, with list_<inner>_m for a list receiver; the prefix is the
\* type of the receiver the method is called on
C12_MethodCallEmitted ==
    Emitted => \A i \in 1..Len(MethodCalls) :
                  /\ expression_c_code(MethodCalls[i]) = ExpectedCall(MethodCalls[i])
                  /\ Occurs(ExpectedCall(MethodCalls[i]))

\* the receiver is the first identifier of the expression
IsDirect(e) == receiver(e) = e

\* the same for the calls whose receiver is a single identifier
C12_DirectReceiver ==
    Emitted => \A i \in 1..Len(MethodCalls) :
                  IsDirect(MethodCalls[i]) =>
                      /\ expression_c_code(MethodCalls[i]) = ExpectedCall(MethodCalls[i])
                      /\ Occurs(ExpectedCall(MethodCalls[i]))

C12_ValueReceiver ==
    /\ Emitted
    /\ Occurs(<<"Counter", "_", "inc", "(", "&", "c", ")", ";">>)
    /\ Occurs(<<"Counter", "_", "get", "(", "&", "c", ", ", "5", ")", ";">>)

C12_ReferenceReceiver ==
    /\ Emitted
    /\ Occurs(<<"Counter", "_", "inc", "(", "r", ")", ";">>)
    /\ Occurs(<<"Counter", "_", "get", "(", "r", ", ", "5", ")", ";">>)

C12_ListReceiver ==
    Emitted /\ Occurs(<<"list_", "u8", "_", "size", "(", "&", "l", ")", ";">>)

C12_ChainReceiver ==
    /\ Emitted
    /\ \E i \in 1..Len(MethodCalls) :
          /\ ~IsDirect(MethodCalls[i])
          /\ MethodCalls[i].type_.keyword = "Other"
          /\ receiver(MethodCalls[i]).type_.keyword = "Counter"

----------------------------------------------------------------------------
(* Properties of the C code of print statements                            *)

\* no stage of the compiler has recorded an error or has stopped
NoError == phase \notin {"exit1", "crashed"} /\ errors = <<>> /\ pass.errors = <<>>

\* the printf calls of the main C file
IsPrintf(line) == line # <<>> /\ Head(line) = "printf("
Printfs == SelectSeq(output.main_c_lines, IsPrintf)

\* C13 as stated: the program u8 x = 5, println("value is {x=}") runs
\* through every stage without an error and is emitted as a single printf
\* whose format ends in %s%d\n" and whose arguments are "x" and x
C13_PrintfAsStated ==
    source = PrintProgram =>
        /\ NoError
        /\ Emitted =>
              Printfs = << <<"printf(", "\"", "chars", "%s", "%", "d", "\\n", "\"", ", ",
                            "\"", "x", "\"", ", ", "x", ")", ";", "\n">> >>

\* C13: the program u8 x = 5, println("value is {x=}") runs through every
\* stage without an error and is emitted as a single printf whose format
\* ends in %s%u\n", u8 being unsigned, and whose arguments are "x=", the
\* source text of the expression and its equal sign, and x
C13_PrintfEmitted ==
    source = PrintProgram =>
        /\ NoError
        /\ Emitted =>
              Printfs = << <<"printf(", "\"", "chars", "%s", "%", "u", "\\n", "\"", ", ",
                            "\"", "x", "=", "\"", ", ", "x", ")", ";", "\n">> >>

C13_Witness == source = PrintProgram /\ Emitted /\ Len(Printfs) = 1 /\ Len(output.main_c_lines) = 2

----------------------------------------------------------------------------
(* Properties of the scopes                                                *)

RECURSIVE Redeclarations(_, _)
RECURSIVE Uses(_, _)

\* the declarations of a block that repeat a name declared earlier in the
\* same block; declared holds the names the block has declared so far
Redeclarations(statements, declared) ==
    IF statements = <<>> THEN 0
    ELSE IF Head(statements).k = "VarDeclStatement"
    THEN (IF Head(statements).name.value \in declared THEN 1 ELSE 0)
            + Redeclarations(Tail(statements), declared \cup {Head(statements).name.value})
    ELSE IF Head(statements).k = "IfStatement"
    THEN Redeclarations(Head(statements).statements, {})
            + Redeclarations(Head(statements).else_statements, {})
            + Redeclarations(Tail(statements), declared)
    ELSE Redeclarations(Tail(statements), declared)

\* the identifiers used as a statement, each with the type the typing pass
\* gave it and the type of the declaration visible where it stands: the
\* last one of its own block, else of the blocks around it
Uses(statements, visible) ==
    IF statements = <<>> THEN <<>>
    ELSE IF Head(statements).k = "VarDeclStatement"
    THEN Uses(Tail(statements),
              Put(visible, Head(statements).name.value, Head(statements).type_))
    ELSE IF Head(statements).k = "IfStatement"
    THEN Uses(Head(statements).statements, visible)
            \o Uses(Head(statements).else_statements, visible)
            \o Uses(Tail(statements), visible)
    ELSE IF Head(statements).k = "ExpressionStatement"
            /\ Head(statements).expression.k = "IdentifierExpression"
    THEN <<[name |-> Head(statements).expression.identifier_token.value,
            type_ |-> Head(statements).expression.type_,
            declared |-> IF Head(statements).expression.identifier_token.value
                               \in DOMAIN visible
                         THEN visible[Head(statements).expression.identifier_token.value]
                         ELSE UnknownType]>>
            \o Uses(Tail(statements), visible)
    ELSE Uses(Tail(statements), visible)

AlreadyExists(msg) == msg = "identifier already exists!"

ScopingAtEnd == phase = "scoping" /\ pass.index > Len(ast)

ScopeUses == Uses(ast, <<>>)

\* C14: add_identifier raises 'identifier already exists' exactly for a
\* name the innermost scope has declared already, so a name of an enclosing
\* scope can be declared again in a block; a lookup in the block returns the
\* type of the inner declaration, and a lookup after the block returns the
\* type of the outer declaration again
C14_InnermostScope ==
    source \in ScopePrograms =>
        /\ ScopingAtEnd =>
              Len(SelectSeq(pass.errors, AlreadyExists)) = Redeclarations(ast, {})
        /\ TypingAtEnd =>
              \A i \in 1..Len(ScopeUses) : ScopeUses[i].type_ = ScopeUses[i].declared

C14_Redeclared ==
    /\ source \in ScopePrograms
    /\ ScopingAtEnd
    /\ Redeclarations(ast, {}) = 2
    /\ ast[1].name.value = "x"

C14_Witness ==
    /\ source \in ScopePrograms
    /\ TypingAtEnd
    /\ pass.errors = <<>>
    /\ Len(ScopeUses) = 2
    /\ ScopeUses[1].type_.keyword = "u16"
    /\ ScopeUses[2].type_.keyword = "u8"

----------------------------------------------------------------------------
(* Properties of the order of the checks                                   *)

InPass == phase \in {"scoping", "typing"}

\* the changes of stage from the scoping pass on
StageOrder ==
    { <<"scoping", "typing">>, <<"typing", "verify">>, <<"verify", "done">>,
      <<"done", "emitted">>, <<"scoping", "exit1">>, <<"typing", "exit1">> }

\* a step of the checks: the stages follow each other in order; inside a
\* pass the step visits the next top-level statement and keeps the errors
\* recorded so far; at the end of a pass that recorded an error the step is
\* the exit with status 1
CheckStep ==
    /\ phase' # phase /\ phase # "generate" => <<phase, phase'>> \in StageOrder
    /\ InPass /\ pass.index <= Len(ast) =>
          /\ phase' = phase
          /\ pass'.index = pass.index + 1
          /\ Len(pass'.errors) >= Len(pass.errors)
          /\ SubSeq(pass'.errors, 1, Len(pass.errors)) = pass.errors
    /\ InPass /\ pass.index > Len(ast) /\ pass.errors # <<>> => phase' = "exit1"
    /\ InPass /\ phase' \notin {phase, "exit1"} => pass.index > Len(ast) /\ pass.errors = <<>>

\* C15: the checks run in the order scoping pass, typing pass, verify_types,
\* emission; a pass visits every top-level statement, also after it has
\* recorded an error; a pass that has recorded an error exits with status 1
\* at its end, and no later pass and no emission starts after it
C15_ChecksInOrder ==
    /\ [][CheckStep]_vars
    /\ [](phase \in {"verify", "done", "emitted"} => pass.errors = <<>> /\ errors = <<>>)
    /\ [](phase # "emitted" => output = NoOutput)

\* a pass has recorded an error, has visited every statement and has exited
C15_Witness ==
    /\ phase = "exit1"
    /\ errors = <<>>
    /\ pass.errors # <<>>
    /\ Len(ast) >= 3
    /\ pass.index = Len(ast) + 1
    /\ output = NoOutput

----------------------------------------------------------------------------
(* Properties of the place of return statements                            *)

RECURSIVE BlockStack(_, _)

\* the line opens the body of a function or of a lifecycle statement
OpensFunction(line) == Last(line) = "IN" /\ Head(line) \in TypeWords \cup {"~"}

\* BlockStack, once the stack before line n is known
BlockStack_before(lines, n, before) ==
    IF lines[n] = Dedent THEN Front(before)
    ELSE IF Last(lines[n]) = "IN" THEN Append(before, OpensFunction(lines[n]))
    ELSE before

\* the blocks that are open after line n, the outermost first: TRUE for
\* the body of a function or lifecycle statement
BlockStack(lines, n) ==
    IF n = 0 THEN <<>> ELSE BlockStack_before(lines, n, BlockStack(lines, n - 1))

\* line i stands in the body of a function or lifecycle statement
InsideFunction(lines, i) ==
    \E k \in 1..Len(BlockStack(lines, i - 1)) : BlockStack(lines, i - 1)[k]

\* the return of line i was refused
ReturnRefused(lines, i) ==
    \E n \in 1..Len(errors) :
        /\ errors[n].msg = "return statement is not allowed here!"
        /\ RaisedIn(errors[n], lines, i)

\* C16: whatever was parsed before, a return statement is accepted exactly
\* when it stands in the body of a function or lifecycle statement, and
\* raises 'return statement is not allowed here' anywhere else
C16_ReturnPlace ==
    source \in ReturnPlacePrograms /\ Generated =>
        \A i \in 1..Len(source) :
            Head(source[i]) = "return" =>
                (ReturnRefused(source, i) <=> ~InsideFunction(source, i))

\* the same for the programs without a syntax error in a body and without
\* a function inside a function
C16_PlainBodies ==
    /\ source \in ReturnPlacePrograms
    /\ Generated
    /\ \A i \in 1..Len(source) : source[i] # <<"1", "+", "NL">>
    /\ \A i \in 1..Len(source) : source[i] # FunctionHeader("g")
    => \A i \in 1..Len(source) :
            Head(source[i]) = "return" =>
                (ReturnRefused(source, i) <=> ~InsideFunction(source, i))

\* a return at top level is accepted after a function whose body raised
C16_AfterError ==
    /\ source = <<FunctionHeader("f"), <<"1", "+", "NL">>, Dedent, ReturnLine>>
    /\ Generated
    /\ ~ReturnRefused(source, 4)
    /\ Len(errors) = 1

\* a return in a function body is refused after a function inside it
C16_AfterNested ==
    /\ source = <<FunctionHeader("f"), FunctionHeader("g"), ReturnLine, Dedent,
                  ReturnLine, Dedent>>
    /\ Generated
    /\ ReturnRefused(source, 5)

----------------------------------------------------------------------------
(* Properties of the class context of the parser                           *)

RECURSIVE ClassStack(_, _)

\* ClassStack, once the stack before line n is known
ClassStack_before(lines, n, before) ==
    IF lines[n] = Dedent THEN Front(before)
    ELSE IF Last(lines[n]) = "IN"
    THEN Append(before, IF Head(lines[n]) = "class" THEN lines[n][2]
                        ELSE IF before = <<>> THEN "None" ELSE Last(before))
    ELSE before

\* for the blocks that are open after line n, the class each of them is in
ClassStack(lines, n) ==
    IF n = 0 THEN <<>> ELSE ClassStack_before(lines, n, ClassStack(lines, n - 1))

\* the class whose body line i stands in
LexicalClass(lines, i) ==
    IF ClassStack(lines, i - 1) = <<>> THEN "None" ELSE Last(ClassStack(lines, i - 1))

\* the class whose body the node stands in
ClassAround(node) ==
    CHOOSE c \in ClassKeywords \cup {"None"} :
        \E i \in 1..Len(source) :
            /\ WordsBefore(source, i) * TokenStride <= node.source_location.start
            /\ node.source_location.start < (WordsBefore(source, i) + Len(source[i])) * TokenStride
            /\ c = LexicalClass(source, i)

HasThis(line) == \E w \in 1..Len(line) : line[w] = "this"

\* the this of line i was refused
ThisRefused(lines, i) ==
    \E n \in 1..Len(errors) :
        /\ errors[n].msg = "found 'this' while not in a class!"
        /\ RaisedIn(errors[n], lines, i)

\* generate has come to the end of the tokens and has not exited yet
ParseEnd == phase = "generate" /\ is_at_end(parser)

\* C17: whatever was parsed before, this is accepted only in the body of a
\* class and raises an AstError outside every class, and a function
\* statement or call expression carries the class whose body it stands in,
\* None outside every class
C17_ClassContext ==
    source \in ThisPrograms /\ ParseEnd =>
        /\ \A i \in 1..Len(source) :
              HasThis(source[i]) =>
                  (ThisRefused(source, i) <=> LexicalClass(source, i) = "None")
        /\ \A k \in 1..Len(AllStatements) :
              AllStatements[k].k = "FunctionStatement" =>
                  AllStatements[k].class_type = ClassAround(AllStatements[k])
        /\ \A k \in 1..Len(AllExpressions) :
              AllExpressions[k].k = "CallExpression" =>
                  AllExpressions[k].class_type = ClassAround(AllExpressions[k])

NoClassError(lines) ==
    /\ \A i \in 1..Len(lines) : lines[i] # <<"1", "+", "NL">>
    /\ \A i \in 1..Len(lines) : lines[i] = GoodLine => LexicalClass(lines, i) = "None"

\* the same for the programs whose class body raises no error
C17_PlainClasses ==
    source \in ThisPrograms /\ ParseEnd /\ NoClassError(source) =>
        /\ \A i \in 1..Len(source) :
              HasThis(source[i]) =>
                  (ThisRefused(source, i) <=> LexicalClass(source, i) = "None")
        /\ \A k \in 1..Len(AllStatements) :
              AllStatements[k].k = "FunctionStatement" =>
                  AllStatements[k].class_type = ClassAround(AllStatements[k])
        /\ \A k \in 1..Len(AllExpressions) :
              AllExpressions[k].k = "CallExpression" =>
                  AllExpressions[k].class_type = ClassAround(AllExpressions[k])

\* after a class whose member raised, this is accepted at top level and
\* the function after it carries the class
C17_AfterError ==
    /\ source = <<ClassHeader, <<"u8", "n", "NL">>, GoodLine, Dedent, ThisLine,
                  FunctionHeader("f"), ReturnLine, Dedent>>
    /\ ParseEnd
    /\ Len(errors) = 1
    /\ Len(ast) = 2
    /\ ast[1].k = "AssignmentStatement"
    /\ ast[2].k = "FunctionStatement"
    /\ ast[2].class_type = "Counter"

----------------------------------------------------------------------------
(* Properties of the references to identifiers                             *)

IsUnknownIdentifier(msg) == msg = "unknown identifier!"

\* y is declared before the reference
Declared(lines) == \E i \in 1..Len(lines) - 1 : lines[i] = DeclareY

\* the reference is the initializer of a declaration of y
OwnInitializer(lines) ==
    Len(Last(lines)) > 3 /\ SubSeq(Last(lines), 1, 3) = <<"u8", "y", "=">>

\* C18: the scoping pass records 'unknown identifier' for every reference
\* to an identifier that no scope declares at the point of the reference,
\* be it a plain use, an operand, a call argument, the head of a chain or
\* the operand of ++ or --
C18_UnknownReported ==
    source \in ReferencePrograms /\ ~OwnInitializer(source) /\ ScopingAtEnd =>
        Len(SelectSeq(pass.errors, IsUnknownIdentifier)) = (IF Declared(source) THEN 0 ELSE 1)

\* the same for the operand of a prefix ++ or --
C18_PrefixOperand ==
    /\ source \in ReferencePrograms
    /\ Head(Last(source)) \in {"++", "--"}
    /\ ScopingAtEnd
    => Len(SelectSeq(pass.errors, IsUnknownIdentifier)) = (IF Declared(source) THEN 0 ELSE 1)

\* the scoping pass has passed over a plain use of an undeclared y
C18_PlainUse ==
    /\ source = FunctionG \o << <<"y", "NL">> >>
    /\ ScopingAtEnd
    /\ pass.errors = <<>>

\* C19: the name a declaration T x = e declares becomes visible only after
\* e has been checked: with no other declaration of x, a reference to x in
\* e is reported as an unknown identifier and the semantic passes reject
\* the program
C19_OwnInitializer ==
    source \in ReferencePrograms /\ OwnInitializer(source) /\ ~Declared(source) =>
        /\ phase \notin {"verify", "done", "emitted"}
        /\ phase = "exit1" => \E n \in 1..Len(pass.errors) : IsUnknownIdentifier(pass.errors[n])

\* the typing pass has accepted u8 y = y and the declaration is emitted
C19_Accepted ==
    /\ source = FunctionG \o << <<"u8", "y", "=", "y", "NL">> >>
    /\ Emitted
    /\ ast[2].initial_value.type_.keyword = "u8"
    /\ Occurs(<<"u8", " ", "y", " = ", "y", ";">>)

\* the initializer refers to a name that is declared nowhere: it is
\* reported and the program is rejected
C19_OtherName ==
    /\ source \in ReferencePrograms
    /\ ~Declared(source)
    /\ Len(Last(source)) > 3
    /\ SubSeq(Last(source), 1, 3) = <<"u8", "a", "=">>
    => /\ phase \notin {"verify", "done", "emitted"}
       /\ phase = "exit1" => \E n \in 1..Len(pass.errors) : IsUnknownIdentifier(pass.errors[n])

----------------------------------------------------------------------------
(* Properties of the check of two types (TypingPass._check_types and       *)
(* TypingPass._check_expression_types): the typing pass is handed two      *)
(* expressions that carry their types and checks them against each other.  *)

\* the keywords of the types that are checked against each other
CheckedKeywords ==
    NumericKeywords \cup ClassKeywords \cup {"bool", "char", "string", "void", "list[u8]"}

\* the types that are checked: the types of the keywords, and the references
\* to the class types
CheckedTypes ==
    { MkType(keyword) : keyword \in CheckedKeywords }
        \cup { [MkType(keyword) EXCEPT !.is_reference = TRUE] : keyword \in ClassKeywords }

\* an expression that carries its type
TypedExpression(type_) == [k |-> "TokenExpression", type_ |-> type_]

CheckTypesInit ==
    /\ source = <<>>
    /\ tokens = TokensOf(source)
    /\ parser = InitParser
    /\ \E left \in CheckedTypes, right \in CheckedTypes :
           ast = <<TypedExpression(left), TypedExpression(right)>>
    /\ errors = <<>>
    /\ phase = "check_types"
    /\ pass = InitTypingPass
    /\ registry = InitRegistry
    /\ output = NoOutput

\* CheckTypes, once the outcome c is known: the expression with the returned
\* type, or the error that parse_statement records
CheckTypes_c(c) ==
    /\ ast' = IF c.ok THEN Append(ast, TypedExpression(c.type_)) ELSE ast
    /\ pass' = IF c.ok THEN pass
                ELSE catch(pass, PErr(pass, NoneNode, "invalid types provided")).s

\* self._check_expression_types(left, right, source_location)
CheckTypes ==
    /\ phase = "check_types"
    /\ CheckTypes_c(check_expression_types(ast[1], ast[2]))
    /\ phase' = "checked"
    /\ UNCHANGED <<source, tokens, parser, errors, registry, output>>

CheckTypesNext == CheckTypes

CheckTypesSpec == CheckTypesInit /\ [][CheckTypesNext]_vars

\* the two types that were checked
CheckedLeft == ast[1].type_
CheckedRight == ast[2].type_

IsChecked == phase = "checked"

BothNumeric == CheckedLeft.class = "NumericType" /\ CheckedRight.class = "NumericType"

\* the check succeeded and returned a type with this keyword
Accepted(keyword) ==
    /\ pass.errors = <<>>
    /\ Len(ast) = 3
    /\ ast[3].type_.keyword = keyword

\* the check raised the error of two types that cannot be used together
Rejected ==
    /\ pass.errors = <<"invalid types provided">>
    /\ Len(ast) = 2

\* the outcome of the check with the two types swapped is the same
SameWhenSwapped ==
    /\ check_types(CheckedRight, CheckedLeft).ok = (pass.errors = <<>>)
    /\ pass.errors = <<>> =>
           check_types(CheckedRight, CheckedLeft).type_.keyword = ast[3].type_.keyword

\* C20: for every pair of types, check_types gives base for two numeric
\* base types, the other type when exactly one of two numeric types is
\* base, and in every other case succeeds exactly when the two keywords are
\* equal and otherwise raises the error that the types cannot be used
\* together; the outcome and the keyword of the result are the same with
\* the two types swapped.
C20_CheckTypes ==
    IsChecked =>
        /\ IF BothNumeric /\ CheckedLeft.keyword = "base" /\ CheckedRight.keyword = "base"
           THEN Accepted("base")
           ELSE IF BothNumeric /\ CheckedLeft.keyword = "base"
           THEN Accepted(CheckedRight.keyword)
           ELSE IF BothNumeric /\ CheckedRight.keyword = "base"
           THEN Accepted(CheckedLeft.keyword)
           ELSE IF CheckedLeft.keyword = CheckedRight.keyword
           THEN Accepted(CheckedLeft.keyword)
           ELSE Rejected
        /\ SameWhenSwapped

\* u8 checked against u16 was rejected
C20_Witness ==
    /\ IsChecked
    /\ CheckedLeft.keyword = "u8"
    /\ CheckedRight.keyword = "u16"
    /\ Rejected

\* base checked against u8 gave u8
C20_BaseLeft ==
    /\ IsChecked
    /\ CheckedLeft.keyword = "base"
    /\ CheckedRight.keyword = "u8"
    /\ Accepted("u8")

\* a class checked against a reference to the same class was accepted
C20_ReferenceAccepted ==
    /\ IsChecked
    /\ CheckedLeft.keyword = "Counter"
    /\ ~CheckedLeft.is_reference
    /\ CheckedRight.keyword = "Counter"
    /\ CheckedRight.is_reference
    /\ Accepted("Counter")

----------------------------------------------------------------------------
(* Properties of the arguments of calls (TypingPass._check_function and    *)
(* visit_call_expression): the last line of an argument program is one     *)
(* call; the declared parameters are read from the text of the program.    *)

IsArgumentWord(word) == word # ","

\* the place of the opening parenthesis of the call
OpenOf(line) == IF line[2] = "(" THEN 2 ELSE 4

\* the words of the arguments that are passed
PassedWords(line) == SelectSeq(SubSeq(line, OpenOf(line) + 1, Len(line) - 2), IsArgumentWord)

\* the types of the declared parameters of the callee
RequiredTypes(line) ==
    IF line[1] = "f" THEN <<MkType("u8"), MkType("char")>>
    ELSE IF line[3] = "get" THEN <<MkType("u8")>>
    ELSE <<>>

\* the type of an argument: a number is of the base type
WordType(word) ==
    CASE word = "a" -> MkType("u8")
      [] word = "k" -> MkType("char")
      [] word = "w" -> MkType("u16")
      [] OTHER -> MkType("base")

\* as many arguments as parameters, each compatible with its parameter
ArgumentsMatch(line) ==
    /\ Len(PassedWords(line)) = Len(RequiredTypes(line))
    /\ \A i \in 1..Len(RequiredTypes(line)) :
           check_types(RequiredTypes(line)[i], WordType(PassedWords(line)[i])).ok

CallAccepted == phase \in {"verify", "done", "emitted"}
CallRefused == phase = "exit1" /\ errors = <<>> /\ pass.errors # <<>>

\* C21: a call that the typing pass accepts has as many arguments as the
\* callee has parameters, each of a type that check_types accepts for its
\* parameter; a call with another number of arguments or with an
\* incompatible argument records an error of the typing pass. This holds for
\* functions, methods of classes and methods of lists.
C21_ArgumentsChecked ==
    source \in ArgumentPrograms =>
        /\ CallAccepted => ArgumentsMatch(Last(source))
        /\ phase = "exit1" => CallRefused /\ ~ArgumentsMatch(Last(source))

\* the same for the calls of functions and of methods of classes
C21_FunctionsAndClasses ==
    source \in ArgumentPrograms /\ Last(source)[3] # "size" =>
        /\ CallAccepted => ArgumentsMatch(Last(source))
        /\ phase = "exit1" => CallRefused /\ ~ArgumentsMatch(Last(source))

\* f(1, k) was accepted
C21_Accepted ==
    /\ source \in ArgumentPrograms
    /\ Last(source) = <<"f", "(", "1", ",", "k", ")", "NL">>
    /\ CallAccepted

\* c.get(w) was refused
C21_Refused ==
    /\ source \in ArgumentPrograms
    /\ Last(source) = <<"c", ".", "get", "(", "w", ")", "NL">>
    /\ CallRefused

\* l.size(a) was accepted
C21_ListAccepted ==
    /\ source \in ArgumentPrograms
    /\ Last(source) = <<"l", ".", "size", "(", "a", ")", "NL">>
    /\ CallAccepted

----------------------------------------------------------------------------
(* Properties of the chains of identifiers (visit_identifier_expression    *)
(* and PassBase.get_identifier_type): c is a Counter, whose field n is a   *)
(* u8; the last line of a chain program uses c.n.                          *)

\* the type that is declared on the left of the use, when there is one
TargetOf(line) == IF line[2] = "v" THEN MkType(line[1]) ELSE MkType("u8")

\* the use is correct when the field, a u8, fits its target
FieldFits(line) == check_types(TargetOf(line), MkType("u8")).ok


\* C22: the inner identifier of a chain a.b, with a of a class type, is
\* looked up in the scope of the class and not in the scopes around the
\* use: the field resolves when no b is declared around the use, and an
\* identifier b around the use is not taken for the field.
C22_FieldOfClass ==
    source \in ChainPrograms /\ TypingAtEnd =>
        (pass.errors = <<>> <=> FieldFits(Last(source)))

\* the use of c.n was refused with no n declared around it
C22_FieldUnknown ==
    /\ source \in ChainPrograms
    /\ Len(source) = 5
    /\ Last(source) = <<"c", ".", "n", "NL">>
    /\ TypingAtEnd
    /\ pass.errors = <<"unknown identifier!">>

\* u16 v = c.n was accepted with a u16 n declared around it
C22_OuterTaken ==
    /\ source \in ChainPrograms
    /\ source[5] = <<"u16", "n", "NL">>
    /\ Last(source) = <<"u16", "v", "=", "c", ".", "n", "NL">>
    /\ TypingAtEnd
    /\ pass.errors = <<>>

----------------------------------------------------------------------------
(* Properties of the scope of a class body (visit_class_statement of the   *)
(* typing pass and PassBase.clean_scope)                                   *)

\* the typing pass is about to visit a class statement
AtClassStatement ==
    /\ phase = "typing"
    /\ pass.index <= Len(ast)
    /\ ast[pass.index].k = "ClassStatement"

\* the names of the variables and of the functions of a class statement
MemberNames(stmt) ==
    { stmt.variables[i].name.value : i \in 1..Len(stmt.variables) }
        \cup { stmt.functions[i].name.value : i \in 1..Len(stmt.functions) }

StdlibNames == {"read_file", "write_file"}

\* the scope that is registered for the class holds the members of the
\* class and the functions of the library, and nothing else
ClassScopeRegistered(s, stmt) ==
    /\ stmt.class_type \in DOMAIN s.class_scopes
    /\ Len(s.class_scopes[stmt.class_type]) = 1
    /\ DOMAIN s.class_scopes[stmt.class_type][1].identifiers = MemberNames(stmt) \cup StdlibNames

\* the visit of a class statement by the typing pass
ClassStep ==
    AtClassStatement =>
        /\ phase' = "typing"
        /\ pass'.scope_wrapper = pass.scope_wrapper
        /\ pass'.stash = <<>>
        /\ ClassScopeRegistered(pass', ast[pass.index])

\* the errors of the typing pass when the body of the class sees the class
\* only, and the code after the class sees no member of the class
ErrorsInClass(program) ==
    IF \E i \in 1..Len(program) : program[i] = <<"g", "NL">> /\ i < Len(program)
    THEN <<"unknown identifier!">> ELSE <<>>

ErrorsAfterClass(program) ==
    IF Last(program) = <<"n", "NL">> THEN <<"unknown identifier!">>
    ELSE IF Last(program) = <<"g", "NL">> /\ Head(program) # <<"u8", "g", "NL">>
    THEN <<"unknown identifier!">>
    ELSE IF Last(program) = <<"get", "(", "1", ")", "NL">>
    THEN <<"identifier is not callable!">>
    ELSE <<>>

\* C23: in the body of a class the typing pass sees the identifiers of the
\* class and the functions of the library only, never an identifier of the
\* scopes around the class; when the class statement is left, with or
\* without errors in its body, the scopes around it are as they were before,
\* no member of the class is visible in them, and the scope of the class is
\* registered under the keyword of the class.
C23_ClassScope ==
    /\ [][ClassStep]_vars
    /\ [](source \in ClassScopePrograms /\ TypingAtEnd =>
             pass.errors = ErrorsInClass(source) \o ErrorsAfterClass(source))

\* the method used g, which is declared before the class, and g was used
\* after the class: one error, of the method
C23_Witness ==
    /\ source \in ClassScopePrograms
    /\ Head(source) = <<"u8", "g", "NL">>
    /\ source[Len(source) - 4] = <<"g", "NL">>
    /\ Last(source) = <<"g", "NL">>
    /\ TypingAtEnd
    /\ pass.errors = <<"unknown identifier!">>
    /\ pass.stash = <<>>
    /\ "g" \in DOMAIN pass.scope_wrapper[1].identifiers
    /\ "n" \notin DOMAIN pass.scope_wrapper[1].identifiers
    /\ DOMAIN pass.class_scopes["Counter"][1].identifiers = {"n", "get"} \cup StdlibNames

----------------------------------------------------------------------------
(* Properties of the AST under emission (CodeGenerator.generate_c and the  *)
(* c_code methods)                                                         *)

\* C24: the emission of C code reads the AST only: the c_code() of a
\* statement or of an expression leaves every field of the node and of the
\* nodes below it as it was.
C24_EmissionReadOnly == [][driver_emits => ast' = ast]_vars

\* a program without a method call and without a println of a string is
\* left as it was
C24_PlainPrograms ==
    [][driver_emits /\ source \in ExpressionPrograms \cup LoopPrograms \cup DeclPrograms
                                      \cup ReturnPrograms \cup ScopePrograms
          => ast' = ast]_vars

\* a print of a string leaves the AST as it was
C24_PrintUnchanged ==
    [][driver_emits /\ source \in PrintPrograms /\ Last(source)[1] = "print" => ast' = ast]_vars

\* println of a string: the emission has set the line end of the string
C24_LineEndSet ==
    /\ source = PrintProgram
    /\ Emitted
    /\ ast[2].value.k = "StringExpression"
    /\ ast[2].value.line_end = "\\n"

\* c.get(a): the emission has consumed the call
C24_CallConsumed ==
    /\ source \in ArgumentPrograms
    /\ Last(source) = <<"c", ".", "get", "(", "a", ")", "NL">>
    /\ Emitted
    /\ Last(ast).expression.inner_expression.k = "CallExpression"
    /\ Last(ast).expression.inner_expression.call_consumed

----------------------------------------------------------------------------
(* Properties of types.h (Types._generate_basic_type_header)               *)

\* how often a line occurs in a file
Occurrences(lines, line) == Cardinality({i \in 1..Len(lines) : lines[i] = line})

\* the types of the registry: the objects stored under a keyword
StoredTypes(reg) == { reg.heap[reg.types[keyword]] : keyword \in DOMAIN reg.types }

\* the types that need a typedef
TypedefTypes(reg) ==
    { type_ \in StoredTypes(reg) :
        is_basic_type(type_) /\ underlying_type(type_.keyword) # type_.keyword }

\* every line of the file is the typedef of a type that needs one
OnlyTypedefTypes(reg, lines) ==
    \A i \in 1..Len(lines) : \E type_ \in TypedefTypes(reg) : lines[i] = typedef_line(type_)

\* types.h is written
HeaderStep == output'.types_h # output.types_h

\* C25: types.h holds exactly one line typedef underlying_type keyword; for
\* every basic type whose underlying_type is not its keyword, and no such
\* line for another type; a type that is stored under several keywords, as
\* u1 is under bool, has one line.
C25_TypesHeader ==
    [][HeaderStep =>
          /\ \A type_ \in TypedefTypes(registry) :
                 Occurrences(output'.types_h, typedef_line(type_)) = 1
          /\ OnlyTypedefTypes(registry, output'.types_h)]_vars

\* the same with at least one line for each of these types
C25_LinesPresent ==
    [][HeaderStep =>
          /\ \A type_ \in TypedefTypes(registry) :
                 Occurrences(output'.types_h, typedef_line(type_)) >= 1
          /\ OnlyTypedefTypes(registry, output'.types_h)]_vars

\* the header was written after a class, a list and another type were
\* added: the line of u1 is there twice, every other line once
C25_Twice ==
    /\ phase = "registry"
    /\ Len(registry.returned) = 3
    /\ \E i \in 1..3 : registry.returned[i].operation = "add_class_type"
    /\ \E i \in 1..3 : registry.returned[i].operation = "add_list_type"
    /\ Occurrences(output.types_h, <<"typedef ", "bool", " ", "u1", ";\n">>) = 2
    /\ Occurrences(output.types_h, <<"typedef ", "uint8_t", " ", "u8", ";\n">>) = 1
    /\ Len(output.types_h) = 12

----------------------------------------------------------------------------
(* Loop-control statements and the loop depth of the parser                *)

ControlKinds == {"BreakStatement", "BreakallStatement", "ContinueStatement"}

\* the statements directly below stmt that are not in the body of a loop
\* that stmt is
ChildrenOutsideBody(stmt) ==
    IF stmt.k = "ForLoopStatement"
    THEN Optional(stmt.init) \o Optional(stmt.loop)
    ELSE StatementChildren(stmt)

RECURSIVE OutsideLoops(_)
\* the statements of a list and those below them that no loop body encloses
OutsideLoops(statements) ==
    IF statements = <<>> THEN <<>>
    ELSE <<Head(statements)>> \o OutsideLoops(ChildrenOutsideBody(Head(statements)))
             \o OutsideLoops(Tail(statements))

NoControlOutsideLoops ==
    \A i \in 1..Len(OutsideLoops(ast)) : OutsideLoops(ast)[i].k \notin ControlKinds

\* generate is about to parse a loop-control token as a top-level statement
AtControlToken ==
    /\ phase = "generate"
    /\ ~is_at_end(parser)
    /\ matches(parser, {"BREAK", "BREAKALL", "CONTINUE"})

\* the step at a loop-control token records an AstError and adds no statement
ControlStep == AtControlToken => /\ Len(errors') = Len(errors) + 1
                                 /\ ast' = ast

\* a program that is one conditional or one function holding a control line
ControlAtDepthZero ==
    \E w \in ControlWords :
        source \in { Lines(<< <<IfTrue, ControlLine(w), Dedent>> >>),
                     Lines(<< <<FunctionHeader("f"), ControlLine(w), Dedent>> >>) }

\* C26: break, breakall and continue become loop-control statements only in
\* the body of a for/while loop; at loop depth 0 each raises an AstError;
\* and loop_count is 0 whenever generate starts a top-level statement, also
\* after an AstError inside an earlier loop body
C26_LoopControl ==
    /\ [](phase = "generate" => parser.loop_count = 0)
    /\ [](NoControlOutsideLoops)
    /\ [][ControlStep]_vars
    /\ [](ControlAtDepthZero /\ phase # "generate" => phase = "exit1" /\ ast = <<>>)

\* generate is at a loop-control line after an error inside a loop body,
\* and a loop-control statement of an earlier loop is in the tree
C26_Witness ==
    /\ AtControlToken
    /\ errors # <<>>
    /\ parser.loop_count = 0
    /\ Some(AllStatements, "BreakStatement")
    /\ \E i \in 1..Len(source) : source[i] = <<"1", "+", "NL">>

----------------------------------------------------------------------------
(* The type of a call of a function of the scopes                          *)

IsCallExpression(e) == e.k = "CallExpression"

\* the calls of the tree
Calls == SelectSeq(AllExpressions, IsCallExpression)

\* the return type the function f of the program declares
DeclaredReturnType == source[1][1]

\* the block of the program declares a variable f
Shadowed == source[5][2] = "f"

\* C27: the type of a call f() is the declared return type of the function
\* the call resolved to, also when a scope between the call and the function
\* declares a variable f of another type
C27_CallType ==
    source \in ShadowPrograms /\ TypingAtEnd
        => \A i \in 1..Len(Calls) :
               /\ "k" \notin DOMAIN Calls[i].type_
               /\ Calls[i].type_.keyword = DeclaredReturnType

\* the same, of the programs that declare no variable f
C27_Unshadowed ==
    source \in ShadowPrograms /\ ~Shadowed /\ TypingAtEnd
        => /\ Calls # <<>>
           /\ \A i \in 1..Len(Calls) :
               /\ "k" \notin DOMAIN Calls[i].type_
               /\ Calls[i].type_.keyword = DeclaredReturnType

\* a call of f was typed behind a variable f of another type
C27_ShadowedCall ==
    /\ source \in ShadowPrograms /\ Shadowed /\ TypingAtEnd
    /\ source[5][1] # DeclaredReturnType
    /\ Calls # <<>>
    /\ "k" \notin DOMAIN Calls[1].type_

----------------------------------------------------------------------------
(* generate on short token streams: the index of the parser                *)

StreamWords ==
    {"1", "x", "+", "=", "(", "NL", "if", ":", "for", "STR(", "chars", ")STR", "{"}

\* the streams of one to three words, and those behind a for token
ShortStreams ==
    { <<a>> : a \in StreamWords } \cup { <<a, b>> : a \in StreamWords, b \in StreamWords }
        \cup { <<a, b, c>> : a \in StreamWords, b \in StreamWords, c \in StreamWords }
Streams ==
    ShortStreams \cup { <<"for", a, b, c>> : a \in StreamWords, b \in StreamWords, c \in StreamWords }

GenerateInit ==
    /\ source \in { <<q>> : q \in Streams }
    /\ tokens = TokensOf(source)
    /\ parser = InitParser
    /\ ast = <<>>
    /\ errors = <<>>
    /\ phase = "generate"
    /\ pass = InitPass
    /\ registry = InitRegistry
    /\ output = NoOutput

GenerateNext ==
    \/ GenerateStep
    \/ GenerateEnd

GenerateSpec == GenerateInit /\ [][GenerateNext]_vars

\* an iteration of the loop of generate
Iteration == phase = "generate" /\ ~is_at_end(parser)

\* the string of the stream is closed: no STRING_START is left open
RECURSIVE OpenStrings(_, _)
OpenStrings(words, open) ==
    IF words = <<>> THEN open
    ELSE IF Head(words) = "STR(" THEN OpenStrings(Tail(words), open + 1)
    ELSE IF Head(words) = ")STR" /\ open > 0 THEN OpenStrings(Tail(words), open - 1)
    ELSE OpenStrings(Tail(words), open)

StringsClosed == OpenStrings(source[1], 0) = 0

\* C28: generate terminates on every token stream that ends with EOF: the
\* current index never decreases, every iteration of the loop (a statement,
\* or an error and its recovery) consumes at least one token, and the index
\* never moves past the end of the token list
C28_GenerateTerminates ==
    /\ [][parser'.current_index >= parser.current_index]_vars
    /\ [][Iteration => parser'.current_index > parser.current_index]_vars
    /\ [](parser.current_index <= Len(tokens))

\* the same, of the streams whose strings are closed
C28_ClosedStrings ==
    /\ [][parser'.current_index >= parser.current_index]_vars
    /\ [][Iteration => parser'.current_index > parser.current_index]_vars
    /\ [](StringsClosed => parser.current_index <= Len(tokens))

\* generate never ends with an IndexError
C28_NoIndexError == phase # "crashed"

\* the index is behind the end of the token list
C28_PastTheEnd == parser.current_index > Len(tokens)

----------------------------------------------------------------------------
(* add_class_type behind a forward reference                               *)

\* the keywords of the calls that are no built-in type
UserClassKeywords == AddedClasses \ DOMAIN builtin_types.types

\* call i returned a ClassType for its keyword
ReturnedClassType(i) ==
    /\ registry.returned[i].r = "ok"
    /\ registry.returned[i].value.class = "ClassType"
    /\ registry.returned[i].value.keyword = registry.returned[i].keyword

\* call i follows an add of its keyword
ForwardDeclared(i) ==
    \E j \in 1..(i - 1) :
        /\ registry.returned[j].operation = "add"
        /\ registry.returned[j].keyword = registry.returned[i].keyword

ClassTypeCalls ==
    { i \in 1..Len(registry.returned) :
        /\ registry.returned[i].operation = "add_class_type"
        /\ registry.returned[i].keyword \in UserClassKeywords }

\* no call replaces the object stored under a keyword
KeepsStored ==
    \A keyword \in DOMAIN registry.types :
        /\ keyword \in DOMAIN registry'.types
        /\ registry'.types[keyword] = registry.types[keyword]

\* C29: after any sequence of add, add_class_type and add_list_type calls,
\* add_class_type(k) returns a ClassType for k without a failed assertion,
\* also when add(k) registered k before as a forward reference; and no
\* call replaces the object that is stored under a keyword
C29_ClassTypeReturned ==
    /\ [](\A i \in ClassTypeCalls : ReturnedClassType(i))
    /\ [][KeepsStored]_vars

\* the same, of the keywords that no add registered before
C29_NotForwardDeclared ==
    /\ [](\A i \in ClassTypeCalls : ~ForwardDeclared(i) => ReturnedClassType(i))
    /\ [][KeepsStored]_vars

\* add_class_type was called for a keyword that add had registered
C29_AfterAdd == \E i \in ClassTypeCalls : ForwardDeclared(i)

----------------------------------------------------------------------------
(* The stacks of the typing pass                                           *)

StacksEmpty == pass.function_stack = <<>> /\ pass.identifier_stack = <<>>

\* the typing pass is about to visit a statement that holds a return
VisitsReturn ==
    /\ phase = "typing"
    /\ pass.index <= Len(ast)
    /\ Some(StatementsBelow(<<ast[pass.index]>>), "ReturnStatement")

\* C30: the stack of return types and the stack of receivers are balanced
\* in the typing pass: what a visit pushes it pops, on the normal and on
\* the error path, both stacks are empty when the pass ends, and a return
\* statement of a program the parser accepted is visited with a return type
\* on the stack
C30_StacksBalanced ==
    /\ [](StacksEmpty)
    /\ [][VisitsReturn => phase' # "crashed"]_vars

\* the pass has ended after an argument raised inside the try statement of
\* a function, and a return and a chain of identifiers were visited
C30_Witness ==
    /\ TypingAtEnd
    /\ StacksEmpty
    /\ source \in StackPrograms
    /\ \E i \in 1..Len(pass.errors) : pass.errors[i] = "identifier already exists!"
    /\ Some(AllStatements, "ReturnStatement")
    /\ \E i \in 1..Len(AllExpressions) :
           /\ AllExpressions[i].k = "IdentifierExpression"
           /\ ~IsNone(AllExpressions[i].inner_expression)

====
